---- MODULE Spec2Model ----
(***************************************************************************)
(* Devotion store loader and devotion resolver of app.py                   *)
(* (load_devotions_for_year, load_devotion_for, today_view), with the date *)
(* normalisation they rest on (normalize_date_str); the two share-text     *)
(* renderers (today_view's whatsapp_share_text and whatsapp_auto's         *)
(* build_message_from_entry); the main flow of scripts/whatsapp_auto.py;   *)
(* the /admin/whatsapp/send handler; and tools/add_nonce.py.               *)
(*                                                                         *)
(* JSON values are tagged records of one shape, so that any two of them    *)
(* can be compared: t is the JSON type, s the text of a string (or the     *)
(* decimal text of a number), l the items of a list, d the members of an   *)
(* object.  Texts are structured, so that writing a date in a format and   *)
(* reading it back are computed, not assumed.                              *)
(***************************************************************************)
EXTENDS Integers, Sequences, FiniteSets, TLC

VARIABLES file, op, req, store, res, morning, night

\* what each distinct call returned the first time it was made
VARIABLES seen

\* the renderers: the record given, the mode, the link of the footer, and the
\* text returned
VARIABLES record, for_mode, link, msg

\* whatsapp_auto.py: the command line, what happens on the desktop while the
\* script runs, where main stands, and what it has done so far
VARIABLES args, env, pc, events

\* /admin/whatsapp/send: the deployment, the lines of
\* logs/admin_whatsapp_log.jsonl, the script runs started, the last response
VARIABLES IS_PROD, send_log, runs, resp

\* add_nonce.py: the template, its .bak file, the template as it was before
\* the tool first changed it, and what the last call of process_file returned
VARIABLES template, bak, pristine, last_status

\* the login: the session cookie, the environment the admin account is read
\* from, and the last response with the request it answers
VARIABLES session, environ, reply

\* append_json_list: data/donations.json on disk, what it held before the
\* handlers started, and for each running handler where it stands in
\* append_json_list and the list it has loaded
VARIABLES donations, initial, handlers

\* scripts/migrate_2025_to_year_json.py: the legacy files still to load, the
\* two maps, where main() is, and devotions_2025.json
VARIABLES sunrise_files, sunset_files, sunrise_map, sunset_map, stage, out_file

resolver_vars == <<file, op, req, store, res, morning, night>>
render_vars == <<record, for_mode, link, msg>>
script_vars == <<args, env, pc, events>>
send_vars == <<IS_PROD, send_log, runs, resp>>
nonce_vars == <<template, bak, pristine, last_status>>
auth_vars == <<session, environ, reply>>
append_vars == <<donations, initial, handlers>>
migrate_vars == <<sunrise_files, sunset_files, sunrise_map, sunset_map, stage, out_file>>

vars ==
  <<file, op, req, store, res, morning, night, seen, record, for_mode, link, msg,
    args, env, pc, events, IS_PROD, send_log, runs, resp, template, bak, pristine,
    last_status,
    session, environ, reply,
    donations, initial, handlers,
    sunrise_files, sunset_files, sunrise_map, sunset_map, stage, out_file>>

-----------------------------------------------------------------------------
(* Bounds of the model                                                     *)

\* months 1..MaxMonth and days 1..MaxDay of FileYear are the dates requested
MaxMonth == 2
MaxDay == 13
\* at most MaxFields content keys are present in a generated slot block
MaxFields == 1

\* the year whose source file exists in the modelled data directory
FileYear == 2026

-----------------------------------------------------------------------------
(* Texts                                                                   *)

\* an ordinary string
Plain(w) == [shape |-> "plain", w |-> w, p |-> <<>>]

\* a string made of three tokens in a date layout; number tokens are written
\* zero-padded as strftime writes them: a token >= 1000 is a four-digit year
\* field, a token < 100 a two-digit field; a month-name token is its month
DateText(shape, a, b, c) == [shape |-> shape, w |-> "", p |-> <<a, b, c>>]

EmptyText == Plain("")

\* Python's None where a str was expected
NoneText == [shape |-> "none", w |-> "", p |-> <<>>]

-----------------------------------------------------------------------------
(* Calendar dates, datetime.strptime and strftime                          *)

NoDate == [y |-> 0, m |-> 0, d |-> 0]

IsLeap(y) == (y % 4 = 0 /\ y % 100 # 0) \/ y % 400 = 0

DaysIn(y, m) ==
  IF m = 2 THEN (IF IsLeap(y) THEN 29 ELSE 28)
  ELSE IF m \in {4, 6, 9, 11} THEN 30 ELSE 31

\* datetime(y, m, d) as strptime builds it: ValueError (NoDate) unless the
\* year field has four digits, the month is 1..12 and the day exists
MkDate(y, m, d) ==
  IF y \in 1000..9999 /\ m \in 1..12 /\ d >= 1 /\ d < 100 /\ d <= DaysIn(y, m)
  THEN [y |-> y, m |-> m, d |-> d]
  ELSE NoDate

\* the ten formats, in the order normalize_date_str tries them
Fmts ==
  << "%Y-%m-%d", "%d-%m-%Y", "%m-%d-%Y", "%Y/%m/%d", "%m/%d/%Y", "%d/%m/%Y",
     "%b %d, %Y", "%B %d, %Y", "%d %b %Y", "%d %B %Y" >>

\* the month whose full name is its own abbreviation ("May")
MayMonth == 5

\* date.strftime(fmt): %B writes the full month name, which for May is the
\* same text as the abbreviation %b writes
Strftime(dt, fmt) ==
  CASE fmt = "%Y-%m-%d" -> DateText("n-n-n", dt.y, dt.m, dt.d)
    [] fmt = "%d-%m-%Y" -> DateText("n-n-n", dt.d, dt.m, dt.y)
    [] fmt = "%m-%d-%Y" -> DateText("n-n-n", dt.m, dt.d, dt.y)
    [] fmt = "%Y/%m/%d" -> DateText("n/n/n", dt.y, dt.m, dt.d)
    [] fmt = "%m/%d/%Y" -> DateText("n/n/n", dt.m, dt.d, dt.y)
    [] fmt = "%d/%m/%Y" -> DateText("n/n/n", dt.d, dt.m, dt.y)
    [] fmt = "%b %d, %Y" -> DateText("b n, n", dt.m, dt.d, dt.y)
    [] fmt = "%B %d, %Y" ->
         DateText(IF dt.m = MayMonth THEN "b n, n" ELSE "B n, n", dt.m, dt.d, dt.y)
    [] fmt = "%d %b %Y" -> DateText("n b n", dt.d, dt.m, dt.y)
    [] fmt = "%d %B %Y" ->
         DateText(IF dt.m = MayMonth THEN "n b n" ELSE "n B n", dt.d, dt.m, dt.y)

\* datetime.strptime(s, fmt): the date read, or NoDate where it raises
Strptime(s, fmt) ==
  IF Len(s.p) # 3 THEN NoDate
  ELSE
    LET a == s.p[1]
        b == s.p[2]
        c == s.p[3]
    IN CASE fmt = "%Y-%m-%d" -> IF s.shape = "n-n-n" THEN MkDate(a, b, c) ELSE NoDate
         [] fmt = "%d-%m-%Y" -> IF s.shape = "n-n-n" THEN MkDate(c, b, a) ELSE NoDate
         [] fmt = "%m-%d-%Y" -> IF s.shape = "n-n-n" THEN MkDate(c, a, b) ELSE NoDate
         [] fmt = "%Y/%m/%d" -> IF s.shape = "n/n/n" THEN MkDate(a, b, c) ELSE NoDate
         [] fmt = "%m/%d/%Y" -> IF s.shape = "n/n/n" THEN MkDate(c, a, b) ELSE NoDate
         [] fmt = "%d/%m/%Y" -> IF s.shape = "n/n/n" THEN MkDate(c, b, a) ELSE NoDate
         [] fmt = "%b %d, %Y" -> IF s.shape = "b n, n" THEN MkDate(c, a, b) ELSE NoDate
         [] fmt = "%B %d, %Y" ->
              IF s.shape = "B n, n" \/ (s.shape = "b n, n" /\ a = MayMonth)
              THEN MkDate(c, a, b) ELSE NoDate
         [] fmt = "%d %b %Y" -> IF s.shape = "n b n" THEN MkDate(c, b, a) ELSE NoDate
         [] fmt = "%d %B %Y" ->
              IF s.shape = "n B n" \/ (s.shape = "n b n" /\ b = MayMonth)
              THEN MkDate(c, b, a) ELSE NoDate

\* date.isoformat()
IsoFormat(dt) == DateText("n-n-n", dt.y, dt.m, dt.d)

\* normalize_date_str: the first format that reads s decides
normalize_date_str(s) ==
  LET ok == {i \in 1..Len(Fmts) : Strptime(s, Fmts[i]) # NoDate}
  IN IF ok = {} THEN NoneText
     ELSE LET first == CHOOSE i \in ok : \A j \in ok : i <= j
          IN Strftime(Strptime(s, Fmts[first]), "%Y-%m-%d")

-----------------------------------------------------------------------------
(* JSON values and the Python operations on them                           *)

NoMembers == [k \in {} |-> 0]

JNull == [t |-> "null", s |-> EmptyText, l |-> <<>>, d |-> NoMembers]
JText(x) == [t |-> "str", s |-> x, l |-> <<>>, d |-> NoMembers]
JStr(w) == JText(Plain(w))
JNum(w) == [t |-> "num", s |-> Plain(w), l |-> <<>>, d |-> NoMembers]
JList(items) == [t |-> "list", s |-> EmptyText, l |-> items, d |-> NoMembers]
JDict(members) == [t |-> "dict", s |-> EmptyText, l |-> <<>>, d |-> members]

\* the marker of a propagating exception, in place of a returned value
Raised == [t |-> "raise", s |-> EmptyText, l |-> <<>>, d |-> NoMembers]

\* isinstance(v, dict), isinstance(v, list)
IsDict(v) == v.t = "dict"
IsList(v) == v.t = "list"

\* bool(v)
Truthy(v) ==
  CASE v.t = "null" -> FALSE
    [] v.t = "str" -> v.s # EmptyText
    [] v.t = "num" -> v.s # Plain("0")
    [] v.t = "list" -> Len(v.l) > 0
    [] v.t = "dict" -> DOMAIN v.d # {}
    [] OTHER -> FALSE

\* a or b
Or(a, b) == IF Truthy(a) THEN a ELSE b

\* v.get(k, default) on a dict v
GetOr(v, k, default) == IF k \in DOMAIN v.d THEN v.d[k] ELSE default

\* v.get(k)
Get(v, k) == GetOr(v, k, JNull)

\* str(v)
PyStr(v) ==
  CASE v.t \in {"str", "num"} -> v.s
    [] v.t = "null" -> Plain("None")
    [] v.t = "list" -> Plain("[...]")
    [] OTHER -> Plain("{...}")

-----------------------------------------------------------------------------
(* The year source file: data/devotions/devotions_<year>.json              *)

\* what json.load returns: t is the top-level JSON type, m the members of a
\* top-level object (date text -> day-block), l the items of a top-level list
Top(t, m, l) == [t |-> t, m |-> m, l |-> l]

AbsentFile == [kind |-> "absent", top |-> Top("null", NoMembers, <<>>)]
GarbageFile == [kind |-> "garbage", top |-> Top("null", NoMembers, <<>>)]
ScalarFile(t) == [kind |-> "json", top |-> Top(t, NoMembers, <<>>)]
KeyedFile(m) == [kind |-> "json", top |-> Top("dict", m, <<>>)]
ListFile(l) == [kind |-> "json", top |-> Top("list", NoMembers, l)]

\* a returned mapping, or the marker of an exception leaving the loader
Loaded(m) == [k |-> "ok", m |-> m]
LoadRaised == [k |-> "raise", m |-> NoMembers]

\* the loop of load_devotions_for_year over a top-level list
RECURSIVE ListToMap(_, _)
ListToMap(l, result) ==
  IF Len(l) = 0 THEN result
  ELSE
    LET entry == Head(l)
        raw_date == GetOr(entry, "date", JStr(""))
        norm == normalize_date_str(PyStr(raw_date))
        key == IF norm # NoneText /\ norm # EmptyText THEN norm ELSE PyStr(raw_date)
    IN IF ~IsDict(entry) THEN ListToMap(Tail(l), result)
       ELSE IF ~Truthy(raw_date) THEN ListToMap(Tail(l), result)
       ELSE ListToMap(Tail(l), (key :> entry) @@ result)

\* the loader without its try/except around json.load
load_year_unguarded(f, year) ==
  IF year # FileYear \/ f.kind = "absent" THEN Loaded(NoMembers)
  ELSE IF f.kind = "garbage" THEN LoadRaised
  ELSE IF f.top.t = "dict" THEN Loaded(f.top.m)
  ELSE IF f.top.t = "list" THEN Loaded(ListToMap(f.top.l, NoMembers))
  ELSE Loaded(NoMembers)

load_devotions_for_year(f, year) ==
  IF year # FileYear \/ f.kind = "absent" THEN Loaded(NoMembers)
  ELSE IF f.kind = "garbage" THEN Loaded(NoMembers)
  ELSE IF f.top.t = "dict" THEN Loaded(f.top.m)
  ELSE IF f.top.t = "list" THEN Loaded(ListToMap(f.top.l, NoMembers))
  ELSE Loaded(NoMembers)

-----------------------------------------------------------------------------
(* load_devotion_for                                                       *)

\* all_for_year.get(day_key)
DayBlockOf(loaded, target_date) ==
  LET day_key == IsoFormat(target_date)
  IN IF day_key \in DOMAIN loaded.m THEN loaded.m[day_key] ELSE JNull

\* has_slots as it would be if only the morning key were looked at
has_slots_morning_only(day_block) ==
  IsDict(Get(day_block, "morning"))

\* has_slots: the day-block has the morning/night structure
has_slots(day_block) ==
  IsDict(Get(day_block, "morning")) \/ IsDict(Get(day_block, "night"))

\* theme, by dialect
ThemeOf(day_block) ==
  IF has_slots(day_block) THEN GetOr(day_block, "theme", JStr(""))
  ELSE Or(Or(Get(day_block, "theme"), Get(day_block, "Theme")), JStr(""))

\* slot_block as it would be if the slot argument were normalised first
SlotBlockOf_normalized(day_block, slot) ==
  LET sl == IF slot \in {"morning", "night"} THEN slot ELSE "morning"
  IN IF has_slots(day_block) THEN Or(Get(day_block, sl), JDict(NoMembers))
     ELSE day_block

\* slot_block as it would be if the dialect were not looked at
SlotBlockOf_slot_only(day_block, slot) ==
  Or(Get(day_block, slot), JDict(NoMembers))

\* slot_block as it would be if the members of the day-block stood in for
\* the members the slot lacks
SlotBlockOf_day_merged(day_block, slot) ==
  IF has_slots(day_block)
  THEN LET sv == Or(Get(day_block, slot), JDict(NoMembers))
       IN IF IsDict(sv)
          THEN JDict(sv.d @@ [k \in DOMAIN day_block.d \ {"morning", "night"} |->
                                 day_block.d[k]])
          ELSE sv
  ELSE day_block

\* slot_block, by dialect
SlotBlockOf(day_block, slot) ==
  IF has_slots(day_block) THEN Or(Get(day_block, slot), JDict(NoMembers))
  ELSE day_block

\* body_text as it would be without closing in its chain
body_text_without_closing(slot_block) ==
  Or(Or(Or(Get(slot_block, "silent_soul_meaning"),
           Get(slot_block, "verse_text")),
        Get(slot_block, "body")),
     JStr(""))

\* body_text as it would be with the explicit body ahead of verse_text
body_text_body_first(slot_block) ==
  Or(Or(Or(Or(Get(slot_block, "silent_soul_meaning"),
              Get(slot_block, "closing")),
           Get(slot_block, "body")),
        Get(slot_block, "verse_text")),
     JStr(""))

\* body_text: silent_soul_meaning, else closing, else verse_text, else body
body_text(slot_block) ==
  Or(Or(Or(Or(Get(slot_block, "silent_soul_meaning"),
              Get(slot_block, "closing")),
           Get(slot_block, "verse_text")),
        Get(slot_block, "body")),
     JStr(""))

\* the returned dict as it would be with an empty verse_ref and prayer
\* replaced from a fixed content pack
RecordOf_fallback(theme, slot_block) ==
  LET ref == Or(Or(Get(slot_block, "verse_ref"), Get(slot_block, "scripture")),
                JStr("Psalm 4:8"))
      pr == Or(Or(Or(Get(slot_block, "prayer"), Get(slot_block, "morning_prayer")),
                  Get(slot_block, "night_prayer")),
               JStr("Lord, order my steps today. Amen."))
  IN JDict([title |-> Or(Or(Or(Get(slot_block, "title"), Get(slot_block, "Theme")),
                            Get(slot_block, "theme")), JStr("")),
            theme |-> theme,
            verse_ref |-> ref,
            body |-> body_text(slot_block),
            verse_text |-> GetOr(slot_block, "verse_text", JStr("")),
            heart_picture |-> GetOr(slot_block, "heart_picture", JStr("")),
            silent_soul_meaning |-> GetOr(slot_block, "silent_soul_meaning", JStr("")),
            prayer |-> pr,
            tags |-> Or(Get(slot_block, "tags"), JList(<<>>))])

\* the dict load_devotion_for returns
RecordOf(theme, slot_block) ==
  JDict([title |-> Or(Or(Or(Get(slot_block, "title"), Get(slot_block, "Theme")),
                         Get(slot_block, "theme")), JStr("")),
         theme |-> theme,
         verse_ref |-> Or(Or(Get(slot_block, "verse_ref"),
                             Get(slot_block, "scripture")), JStr("")),
         body |-> body_text(slot_block),
         verse_text |-> GetOr(slot_block, "verse_text", JStr("")),
         heart_picture |-> GetOr(slot_block, "heart_picture", JStr("")),
         silent_soul_meaning |-> GetOr(slot_block, "silent_soul_meaning", JStr("")),
         prayer |-> Or(Or(Or(Get(slot_block, "prayer"),
                             Get(slot_block, "morning_prayer")),
                          Get(slot_block, "night_prayer")), JStr("")),
         tags |-> Or(Get(slot_block, "tags"), JList(<<>>))])

\* load_devotion_for without its isinstance guard on day_block: .get on a
\* value that is no dict raises AttributeError
load_devotion_for_unguarded(f, target_date, slot) ==
  LET all_for_year == load_devotions_for_year(f, target_date.y)
      day_block == DayBlockOf(all_for_year, target_date)
      slot_block == SlotBlockOf(day_block, slot)
  IN IF all_for_year.k = "raise" THEN Raised
     ELSE IF ~IsDict(day_block) THEN Raised
     ELSE IF ~IsDict(slot_block) THEN JNull
     ELSE RecordOf(ThemeOf(day_block), slot_block)

\* None, the record, or Raised: day_block.get on a value that is no dict
\* raises AttributeError, which is why the isinstance guards come first
load_devotion_for(f, target_date, slot) ==
  LET all_for_year == load_devotions_for_year(f, target_date.y)
      day_block == DayBlockOf(all_for_year, target_date)
      slot_block == SlotBlockOf(day_block, slot)
  IN IF all_for_year.k = "raise" THEN Raised
     ELSE IF ~IsDict(day_block) THEN JNull
     ELSE IF ~IsDict(slot_block) THEN JNull
     ELSE RecordOf(ThemeOf(day_block), slot_block)

-----------------------------------------------------------------------------
(* today_view                                                              *)

MorningDefault ==
  JDict([title |-> JStr("Morning Mercies"),
         verse_ref |-> JStr("Lamentations 3:22-23"),
         body |-> JStr("His mercies are new every morning; great is Your faithfulness.")])

NightDefault ==
  JDict([title |-> JStr("Quiet Rest"),
         verse_ref |-> JStr("Psalm 4:8"),
         body |-> JStr("In peace I will both lie down and sleep; for You alone, O Lord, make me dwell in safety.")])

\* today_view's slot without the `if m:` test
TodaySlot_unchecked(f, today, slot, default) ==
  load_devotion_for(f, today, slot)

\* m = load_devotion_for(today, slot); if m: <slot> = m
TodaySlot(f, today, slot, default) ==
  LET m == load_devotion_for(f, today, slot)
  IN IF m = Raised THEN Raised
     ELSE IF Truthy(m) THEN m ELSE default

-----------------------------------------------------------------------------
(* The source files and requests the model draws from                      *)

\* the date the generated day-blocks are filed under, another date of the
\* same year, and a date of a year that has no source file
D0 == [y |-> FileYear, m |-> 1, d |-> 1]
D1 == [y |-> FileYear, m |-> 1, d |-> 2]
D2 == [y |-> FileYear + 1, m |-> 1, d |-> 1]

ContentDates == {D0, D1, D2}

\* slot arguments: the two slots, a different case, the empty string, and a
\* word that is a key of the day-block
SlotArgs == {"morning", "night", "Morning", "", "theme"}

\* the keys load_devotion_for reads from a slot block
ContentKeys ==
  {"silent_soul_meaning", "closing", "verse_text", "body", "title", "Theme",
   "theme", "verse_ref", "scripture", "heart_picture", "prayer",
   "morning_prayer", "night_prayer", "tags"}

Kinds == {"text", "empty", "null", "other"}

\* a value of each kind for key k: a text value is named after its key, so
\* that a field of the record tells which key it was taken from
ValueOf(k, kind) ==
  CASE kind = "text" -> IF k = "tags" THEN JList(<<JStr("tag")>>) ELSE JStr(k)
    [] kind = "empty" -> IF k = "tags" THEN JList(<<>>) ELSE JStr("")
    [] kind = "null" -> JNull
    [] OTHER -> IF k = "tags" THEN JStr("tags") ELSE JNum("7")

\* slot blocks with at most MaxFields of the content keys present
FewKeyBlocks ==
  UNION {{[k \in K |-> ValueOf(k, kf[k])] : kf \in [K -> Kinds]} :
         K \in {X \in SUBSET ContentKeys : Cardinality(X) <= MaxFields}}

\* the keys of each `a or b or ...` chain of load_devotion_for
Chains ==
  {{"title", "Theme", "theme"},
   {"verse_ref", "scripture"},
   {"silent_soul_meaning", "closing", "verse_text", "body"},
   {"prayer", "morning_prayer", "night_prayer"}}

\* slot blocks holding any keys of one chain, each with a text or empty
ChainBlocks ==
  UNION {{[k \in K |-> ValueOf(k, kf[k])] : kf \in [K -> {"text", "empty"}]} :
         K \in UNION {SUBSET c : c \in Chains}}

Blocks == FewKeyBlocks \cup ChainBlocks

\* a full morning block
B0 ==
  [verse_ref |-> JStr("Genesis 1:1"), verse_text |-> JStr("In the beginning..."),
   closing |-> JStr("Start fresh."), prayer |-> JStr("Lord, guide me.")]

\* a member that may be absent from an object
Absent == [t |-> "absent", s |-> EmptyText, l |-> <<>>, d |-> NoMembers]
Opt(k, v) == IF v = Absent THEN NoMembers ELSE (k :> v)

Key0 == IsoFormat(D0)

\* a flat (Dialect B) day-block filed under D0
Flat(b) == KeyedFile(Key0 :> JDict(b))

\* a slotted (Dialect A) day-block filed under D0
Slotted(th, mv, nv) ==
  KeyedFile(Key0 :> JDict(Opt("theme", th) @@ Opt("morning", mv) @@ Opt("night", nv)))

SlotVals ==
  {Absent, JNull, JStr(""), JStr("x"), JList(<<>>), JDict(NoMembers), JDict(B0)}

\* a morning block of the same four keys, each value named after its key
B1 == [k \in {"verse_ref", "verse_text", "closing", "prayer"} |-> ValueOf(k, "text")]

\* the keys of the teaching points a slot block may carry
PointKeys == {"point1", "point2", "point3"}

\* a morning block with the three points alone, and one with an explicit
\* body, a closing and a verse_text as well, each value named after its key
PointBlocks ==
  {[k \in K |-> JStr(k)] : K \in {PointKeys, PointKeys \cup {"body", "closing", "verse_text"}}}

\* a value found at day level, beside the slots
DayValueOf(k) == IF k = "tags" THEN JList(<<JStr("day-level")>>) ELSE JStr("day-level")

\* the content keys a slotted day-block may carry at day level
DayKeys == ContentKeys \ {"theme"}

\* a slotted day-block filed under D0 that also holds the keys K at day level
SlottedWith(K, b) ==
  KeyedFile(Key0 :> JDict([k \in K |-> DayValueOf(k)]
                          @@ [theme |-> JStr("New Beginnings"), morning |-> JDict(b)]))

ThemeVals == {Absent, JStr("New Beginnings"), JNull}

SourcesContent ==
  {AbsentFile, GarbageFile, ScalarFile("str"), ScalarFile("num"),
   ScalarFile("null"), KeyedFile(NoMembers), ListFile(<<>>)}
  \cup {KeyedFile(Key0 :> v) : v \in {JNull, JStr("x"), JList(<<>>), JNum("7")}}
  \cup {KeyedFile(IsoFormat(D1) :> JDict(B0))}
  \cup {ListFile(<<JStr("x"), JDict(("date" :> JText(Key0)) @@ B0)>>)}
  \cup {Flat(b) : b \in Blocks}
  \cup {Slotted(JStr("New Beginnings"), JDict(b), Absent) : b \in Blocks}
  \cup {Slotted(c[1], c[2], c[3]) :
        c \in {x \in ThemeVals \X SlotVals \X SlotVals : IsDict(x[2]) \/ IsDict(x[3])}}
  \cup {Slotted(th, JDict(B1), nv) : th \in ThemeVals \ {Absent}, nv \in {Absent, JDict(B0)}}
  \cup {SlottedWith({k}, b) : k \in DayKeys, b \in {NoMembers, B0}}
  \cup {SlottedWith(DayKeys, NoMembers)}
  \cup {Slotted(JStr("New Beginnings"), JDict(b), Absent) : b \in PointBlocks}

-----------------------------------------------------------------------------
(* The state machine: the source file is only read; op names the last call *)
(* and store, res, morning, night hold what it returned (a call's return   *)
(* value replaces the previous call's)                                     *)

NoReq == [date |-> NoDate, slot |-> ""]

Idle ==
  /\ op = "init"
  /\ req = NoReq
  /\ store = Loaded(NoMembers)
  /\ res = JNull
  /\ morning = JNull
  /\ night = JNull

\* no renderer has been called
NoMsg == [k |-> "none", by |-> "", lines |-> <<>>]

RenderIdle ==
  /\ record = JNull
  /\ for_mode = ""
  /\ link = EmptyText
  /\ msg = NoMsg

\* whatsapp_auto.py is not running
NoArgs ==
  [mode |-> "", dry_run |-> FALSE, open_only |-> FALSE, send |-> FALSE, chat |-> FALSE]
NoEnv == [deps |-> TRUE, quick_search |-> "ok", verses |-> TRUE]

ScriptIdle ==
  /\ args = NoArgs
  /\ env = NoEnv
  /\ pc = "off"
  /\ events = <<>>

\* no request to /admin/whatsapp/send has been made
NoRq == [gate |-> "", authed |-> FALSE, flag |-> ""]
NoResp == [rq |-> NoRq, status |-> 0, json |-> FALSE, ok |-> FALSE, to |-> "", results |-> <<>>]

SendIdle ==
  /\ IS_PROD = FALSE
  /\ send_log = <<>>
  /\ runs = <<>>
  /\ resp = NoResp

\* a file that does not exist
NoFile == [exists |-> FALSE, text |-> <<>>]

\* add_nonce.py has no template at hand
NonceIdle ==
  /\ template = [suffix |-> "", text |-> <<>>]
  /\ bak = NoFile
  /\ pristine = NoFile
  /\ last_status = ""

\* no request has been answered
NoReply ==
  [rq |-> [route |-> "", method |-> "", email |-> "", password |-> ""],
   was_authed |-> FALSE, status |-> 0, to |-> "", served |-> FALSE]

\* the site is not running: no session cookie, no admin account configured
AuthIdle ==
  /\ session = NoMembers
  /\ environ = [ADMIN_EMAIL |-> "", ADMIN_PASSWORD |-> ""]
  /\ reply = NoReply

\* a JSON list file on disk
ListOnDisk(items) == [kind |-> "list", items |-> items]

\* no request handler is appending to data/donations.json
AppendIdle ==
  /\ donations = ListOnDisk(<<>>)
  /\ initial = <<>>
  /\ handlers = <<>>

\* devotions_2025.json before the migration wrote it, and once written
NotWritten == [k |-> "none", records |-> <<>>]
Written(recs) == [k |-> "written", records |-> recs]

\* the migration script is not running
MigrateIdle ==
  /\ sunrise_files = <<>> /\ sunset_files = <<>>
  /\ sunrise_map = NoMembers /\ sunset_map = NoMembers
  /\ stage = "idle" /\ out_file = NotWritten

\* the parts of the state the resolver has no hand in
beside_resolver == <<render_vars, script_vars, send_vars, nonce_vars, auth_vars, append_vars, migrate_vars>>

BesideResolverIdle == RenderIdle /\ ScriptIdle /\ SendIdle /\ NonceIdle /\ AuthIdle /\ AppendIdle /\ MigrateIdle

Init == file \in SourcesContent /\ Idle /\ seen = NoMembers /\ BesideResolverIdle

\* load_devotions_for_year(year)
LoadYear(year) ==
  /\ op' = "load"
  /\ req' = [date |-> [y |-> year, m |-> 0, d |-> 0], slot |-> ""]
  /\ store' = load_devotions_for_year(file, year)
  /\ res' = JNull
  /\ morning' = JNull
  /\ night' = JNull
  /\ UNCHANGED file

\* load_devotion_for as it would be if it took the day-block out of the
\* year source instead of reading it
Resolve_consuming(target_date, slot) ==
  /\ op' = "resolve"
  /\ req' = [date |-> target_date, slot |-> slot]
  /\ res' = load_devotion_for(file, target_date, slot)
  /\ store' = Loaded(NoMembers)
  /\ morning' = JNull
  /\ night' = JNull
  /\ file' = IF file.kind = "json" /\ file.top.t = "dict"
             THEN KeyedFile([k \in DOMAIN file.top.m \ {IsoFormat(target_date)} |->
                              file.top.m[k]])
             ELSE file

\* load_devotion_for(target_date, slot)
Resolve(target_date, slot) ==
  /\ op' = "resolve"
  /\ req' = [date |-> target_date, slot |-> slot]
  /\ res' = load_devotion_for(file, target_date, slot)
  /\ store' = Loaded(NoMembers)
  /\ morning' = JNull
  /\ night' = JNull
  /\ UNCHANGED file

\* load_devotion_for(target_date): the slot parameter takes its default
ResolveDefault(target_date) ==
  /\ op' = "resolve_default"
  /\ req' = [date |-> target_date, slot |-> ""]
  /\ res' = load_devotion_for(file, target_date, "morning")
  /\ store' = Loaded(NoMembers)
  /\ morning' = JNull
  /\ night' = JNull
  /\ UNCHANGED file

\* GET /today on the day `today`
TodayView(today) ==
  /\ op' = "today"
  /\ req' = [date |-> today, slot |-> ""]
  /\ morning' = TodaySlot(file, today, "morning", MorningDefault)
  /\ night' = TodaySlot(file, today, "night", NightDefault)
  /\ store' = Loaded(NoMembers)
  /\ res' = JNull
  /\ UNCHANGED file

Next ==
  \/ \E year \in {FileYear, FileYear + 1} :
       LoadYear(year) /\ UNCHANGED <<seen, beside_resolver>>
  \/ \E d \in ContentDates, s \in SlotArgs :
       Resolve(d, s) /\ UNCHANGED <<seen, beside_resolver>>
  \/ \E d \in ContentDates :
       ResolveDefault(d) /\ UNCHANGED <<seen, beside_resolver>>
  \/ \E d \in ContentDates :
       TodayView(d) /\ UNCHANGED <<seen, beside_resolver>>

Spec == Init /\ [][Next]_vars

-----------------------------------------------------------------------------
(* Repeated calls on one year source: seen keeps, for every distinct call, *)
(* what it returned the first time and how often it has been made          *)

\* a call is repeated at most MaxCalls times
MaxCalls == 2

\* the call being made in this step
ThisCall == [op |-> op', req |-> req']

Remember ==
  /\ ThisCall \in DOMAIN seen => seen[ThisCall].n < MaxCalls
  /\ seen' =
       IF ThisCall \in DOMAIN seen
       THEN [seen EXCEPT ![ThisCall].n = @ + 1]
       ELSE (ThisCall :> [store |-> store', res |-> res', n |-> 1]) @@ seen

SourcesRepeat ==
  {AbsentFile, GarbageFile, ScalarFile("num"), KeyedFile(NoMembers),
   KeyedFile(Key0 :> JStr("x")),
   KeyedFile(IsoFormat(D1) :> JDict(B0)),
   Flat(B0),
   Slotted(JStr("New Beginnings"), JDict(B0), Absent),
   Slotted(JStr("New Beginnings"), JDict(B0), JDict(B1)),
   Slotted(Absent, JStr("x"), JDict(B0)),
   SlottedWith(DayKeys, NoMembers),
   ListFile(<<JStr("x"), JDict(("date" :> JText(Key0)) @@ B0)>>),
   ListFile(<<JDict(("date" :> JText(Strftime(D1, "%d %B %Y"))) @@ B0)>>)}

InitRepeat == file \in SourcesRepeat /\ Idle /\ seen = NoMembers /\ BesideResolverIdle

NextRepeat ==
  \/ LoadYear(FileYear) /\ Remember /\ UNCHANGED beside_resolver
  \/ \E s \in {"morning", "night"} :
       Resolve(D0, s) /\ Remember /\ UNCHANGED beside_resolver
  \/ Resolve(D1, "morning") /\ Remember /\ UNCHANGED beside_resolver

SpecRepeat == InitRepeat /\ [][NextRepeat]_vars

-----------------------------------------------------------------------------
(* List-form year sources: the dates of the entries are written in the ten *)
(* formats                                                                 *)

\* the months requested: 1..MaxMonth, and May, whose name %b and %B write alike
LoadMonths == (1..MaxMonth) \cup {5}

Dates ==
  {MkDate(FileYear, m, d) : m \in LoadMonths, d \in 1..MaxDay} \ {NoDate}

\* every date of Dates written in every format
DateTexts == {Strftime(dt, Fmts[i]) : dt \in Dates, i \in 1..Len(Fmts)}

\* texts no format reads: a word, and a day that does not exist
JunkTexts == {Plain("soon"), DateText("n-n-n", FileYear, 2, 30)}

DateKeyNames == {"date", "DATE", "Date", "day", "Day"}

\* the content of a list entry, as the loader's docstring shows it
EntryBody == [theme |-> JStr("New Beginnings"), morning |-> JDict(B0)]

\* a list entry holding v under the key kn
EntryOf(kn, v) == JDict((kn :> v) @@ EntryBody)

\* a second entry, of other content
OtherEntryOf(kn, v) == JDict((kn :> v) @@ [theme |-> JStr("Second"), night |-> JDict(B0)])

SourcesList ==
  {ListFile(<<EntryOf("date", JText(t))>>) : t \in DateTexts \cup JunkTexts}
  \cup {ListFile(<<EntryOf(c[1], JText(c[2]))>>) :
        c \in (DateKeyNames \ {"date"})
                \X ({Strftime(D0, Fmts[i]) : i \in 1..Len(Fmts)} \cup {Plain("soon")})}
  \cup {ListFile(<<EntryOf("date", v)>>) :
        v \in {JNull, JStr(""), JNum("0"), JNum("20260101"), JList(<<>>)}}
  \cup {ListFile(<<JStr("x"), JNull, EntryOf("date", JText(Key0))>>),
        ListFile(<<EntryOf("date", JText(Key0)), OtherEntryOf("date", JText(Key0))>>),
        ListFile(<<EntryOf("date", JText(Key0)),
                   OtherEntryOf("date", JText(Strftime(D0, "%d %B %Y")))>>),
        ListFile(<<EntryOf("date", JText(Key0)),
                   OtherEntryOf("date", JText(IsoFormat(D1)))>>),
        ListFile(<<JDict(("date" :> JStr("")) @@ ("Date" :> JText(Key0)) @@ EntryBody)>>),
        ListFile(<<>>)}

InitLoad == file \in SourcesList /\ Idle /\ seen = NoMembers /\ BesideResolverIdle

\* one call on one list-form source: the calls share no state
NextLoad ==
  /\ op = "init"
  /\ \/ LoadYear(FileYear)
     \/ \E d \in Dates, s \in {"morning", "night"} : Resolve(d, s)
  /\ UNCHANGED <<seen, beside_resolver>>

SpecLoad == InitLoad /\ [][NextLoad]_vars

-----------------------------------------------------------------------------
(* Share texts.  A text is a sequence of lines ("\n".join(lines)) and a    *)
(* line a sequence of pieces: the fixed words of an f-string and, between  *)
(* them, the values formatted into it.  Characters outside ASCII are       *)
(* written by their code point: [U+2014] is the em dash.                   *)

\* str.strip() and str.rstrip() on the words of the model that begin or end
\* with blanks
StripWord(w) ==
  CASE w = " " -> ""
    [] w = " padded " -> "padded"
    [] OTHER -> w

RStripWord(w) ==
  CASE w = " " -> ""
    [] w = " padded " -> " padded"
    [] w = "[U+1F64F] " -> "[U+1F64F]"
    [] OTHER -> w

Strip(t) == IF t.shape = "plain" THEN Plain(StripWord(t.w)) ELSE t
RStrip(t) == IF t.shape = "plain" THEN Plain(RStripWord(t.w)) ELSE t

\* a line, or a text, of no characters
LineEmpty(line) == \A i \in 1..Len(line) : line[i] = EmptyText
TextEmpty(lines) == \A i \in 1..Len(lines) : LineEmpty(lines[i])

\* line.rstrip(): blanks go from the last piece, and the piece before it is
\* reached when nothing else is left of the last
RECURSIVE RStripLine(_)
RStripLine(line) ==
  IF Len(line) = 0 THEN line
  ELSE LET last == RStrip(line[Len(line)])
       IN IF last = EmptyText THEN RStripLine(SubSeq(line, 1, Len(line) - 1))
          ELSE Append(SubSeq(line, 1, Len(line) - 1), last)

\* "\n".join(lines).strip() where the first line begins with a fixed word:
\* the lines of no characters at the end go, and the blanks that end the
\* last line left
RECURSIVE JoinStrip(_)
JoinStrip(lines) ==
  IF Len(lines) = 0 THEN lines
  ELSE LET last == RStripLine(lines[Len(lines)])
       IN IF LineEmpty(last) THEN JoinStrip(SubSeq(lines, 1, Len(lines) - 1))
          ELSE Append(SubSeq(lines, 1, Len(lines) - 1), last)

\* the returned text, or the marker of an exception leaving the renderer
Text(by, lines) == [k |-> "ok", by |-> by, lines |-> lines]
TextRaised(by) == [k |-> "raise", by |-> by, lines |-> <<>>]

\* today.strftime("%A, %B %d, %Y")
LongDate(dt) == DateText("A, B n, n", dt.m, dt.d, dt.y)

\* (v or "").strip(): AttributeError when v is non-empty and no str
CanStrip(v) == ~Truthy(v) \/ v.t = "str"
StripOr(v) == IF Truthy(v) THEN Strip(v.s) ELSE EmptyText

-----------------------------------------------------------------------------
(* Path 1: the WhatsApp share text built from `morning` in today_view.     *)
(* The lines stand after today_view's return statement.                    *)

\* the keys whose values are stripped
StrippedKeys ==
  {"verse_text", "encouragement_intro", "point1", "point2", "point3", "closing",
   "prayer"}

\* the list `lines`
ShareLines(m, today, group_link) ==
  << <<Plain("[U+1F305] SoulStart Sunrise [U+2013] "), LongDate(today)>>,
     <<>>,
     <<Plain("Theme "), PyStr(GetOr(m, "title", JStr("")))>>,
     <<Plain("[U+1F4D6] Scripture: "), PyStr(GetOr(m, "verse_ref", JStr(""))),
       Plain("-- \""), StripOr(Get(m, "verse_text")), Plain("\"")>>,
     <<>>,
     <<StripOr(Get(m, "encouragement_intro"))>>,
     <<>>,
     <<StripOr(Get(m, "point1"))>>,
     <<StripOr(Get(m, "point2"))>>,
     <<StripOr(Get(m, "point3"))>>,
     <<StripOr(Get(m, "closing"))>>,
     <<>>,
     <<Plain("[U+1F64F] Prayer:  "), StripOr(Get(m, "prayer"))>>,
     <<>>,
     <<Plain("[U+1F517] Share Us:  "), group_link>> >>

\* the share text as it would be if an empty record were rendered as well
whatsapp_share_text_unguarded(m, today, group_link) ==
  IF m.t # "dict" THEN TextRaised("path1")
  ELSE IF \E k \in StrippedKeys : ~CanStrip(Get(m, k)) THEN TextRaised("path1")
  ELSE Text("path1",
            SelectSeq(ShareLines(m, today, group_link), LAMBDA l : ~LineEmpty(l)))

\* whatsapp_share_text: "" unless `morning` is non-empty; .get raises on a
\* non-empty value that is no dict, .strip on one that is no str
whatsapp_share_text(m, today, group_link) ==
  IF ~Truthy(m) THEN Text("path1", <<>>)
  ELSE IF m.t # "dict" THEN TextRaised("path1")
  ELSE IF \E k \in StrippedKeys : ~CanStrip(Get(m, k)) THEN TextRaised("path1")
  ELSE Text("path1",
            SelectSeq(ShareLines(m, today, group_link), LAMBDA l : ~LineEmpty(l)))

-----------------------------------------------------------------------------
(* Path 2: build_message_from_entry of scripts/whatsapp_auto.py            *)

\* a or b or c
Or3(a, b, c) == Or(Or(a, b), c)

DefaultPrayer(md) ==
  IF md = "morning" THEN Plain("Lord, order my steps today. Amen.")
  ELSE Plain("Lord, quiet my mind and keep me in Your care. Amen.")

Header(md) ==
  IF md = "morning" THEN Plain("[U+1F305] Sunrise Devotion [U+2014] ")
  ELSE Plain("[U+1F319] Sunset Devotion [U+2014] ")

\* add(lines, f"\n<mark><val>"): a line of no characters, then the line
Marked(mark, val) == << <<>>, <<Plain(mark), val>> >>

\* the lines added when cond holds
When(cond, lines) == IF cond THEN lines ELSE <<>>

\* the promotion of the site, when SITE_URL is set
Promo(promo_url) ==
  When(promo_url # EmptyText,
       << <<>>, <<Plain("[U+1F517] Visit our website")>>, <<promo_url>> >>)

\* point1..point3 that are non-empty, numbered
Points(e) ==
  LET pts == SelectSeq(<<Get(e, "point1"), Get(e, "point2"), Get(e, "point3")>>, Truthy)
  IN [i \in 1..Len(pts) |->
        <<Plain(CASE i = 1 -> "1. " [] i = 2 -> "2. " [] OTHER -> "3. "), PyStr(pts[i])>>]

\* the entry is of the new style, or of the legacy style
is_new(e) ==
  \/ Truthy(Or3(Get(e, "title"), Get(e, "Theme"), Get(e, "theme")))
  \/ Truthy(Or3(Get(e, "verse_ref"), Get(e, "verseRef"), Get(e, "VerseRef")))
  \/ Truthy(Or3(Get(e, "verse_text"), Get(e, "verseText"), Get(e, "VerseText")))
  \/ Len(Points(e)) > 0
  \/ Truthy(Get(e, "closing"))
  \/ Truthy(Get(e, "prayer"))

is_legacy(e) ==
  \/ Truthy(Or3(Get(e, "scripture"), Get(e, "Scripture"), Get(e, "verse")))
  \/ Truthy(Or3(Get(e, "reflection"), Get(e, "note"), Get(e, "thought")))
  \/ Truthy(Get(e, "declaration"))
  \/ Truthy(Get(e, "blessing"))
  \/ Truthy(Or(Get(e, "morning_prayer"), Get(e, "morningPrayer")))
  \/ Truthy(Or(Get(e, "night_prayer"), Get(e, "nightPrayer")))

\* the header line and the sunrise and sunset lines
HeadLines(md, e, dt) ==
  LET sunrise == Or3(Get(e, "sunrise"), Get(e, "Sunrise"), Get(e, "sun_rise"))
      sunset == Or3(Get(e, "sunset"), Get(e, "Sunset"), Get(e, "sun_set"))
  IN << <<Header(md), LongDate(dt)>> >>
     \o When(Truthy(sunrise), << <<Plain("[U+1F555] Sunrise: "), PyStr(sunrise)>> >>)
     \o When(Truthy(sunset), << <<Plain("[U+1F307] Sunset: "), PyStr(sunset)>> >>)

\* the branch `if is_new:`
NewLines(md, e, promo_url) ==
  LET title == Or3(Get(e, "title"), Get(e, "Theme"), Get(e, "theme"))
      verse_ref == Or3(Get(e, "verse_ref"), Get(e, "verseRef"), Get(e, "VerseRef"))
      verse_text == Or3(Get(e, "verse_text"), Get(e, "verseText"), Get(e, "VerseText"))
      vv == IF Truthy(verse_text)
            THEN (IF Truthy(verse_ref)
                  THEN <<Plain("[U+1F4D6] "), PyStr(verse_ref), Plain(" [U+2014] "),
                         PyStr(verse_text)>>
                  ELSE <<Plain("[U+1F4D6] "), PyStr(verse_text)>>)
            ELSE <<Plain("[U+1F4D6] "), PyStr(verse_ref)>>
      prayer == Get(e, "prayer")
  IN When(Truthy(title), << <<>>, <<Plain("*"), PyStr(title), Plain("*")>> >>)
     \o When(Truthy(verse_ref) \/ Truthy(verse_text), << <<>>, vv >>)
     \o When(Len(Points(e)) > 0, << <<>> >> \o Points(e))
     \o When(Truthy(Get(e, "closing")), Marked("[U+270D] ", PyStr(Get(e, "closing"))))
     \o Marked("[U+1F64F] ", IF Truthy(prayer) THEN PyStr(prayer) ELSE DefaultPrayer(md))
     \o Promo(promo_url)

\* the branch `elif is_legacy:`
LegacyLines(md, e, promo_url) ==
  LET theme_or_title ==
        Or(Or3(Get(e, "title"), Get(e, "Theme"), Get(e, "theme")), Get(e, "theme"))
      scripture == Or3(Get(e, "scripture"), Get(e, "Scripture"), Get(e, "verse"))
      reflection == Or3(Get(e, "reflection"), Get(e, "note"), Get(e, "thought"))
      morning_pr == Or(Get(e, "morning_prayer"), Get(e, "morningPrayer"))
      night_pr == Or(Get(e, "night_prayer"), Get(e, "nightPrayer"))
      pr == IF md = "morning" THEN morning_pr ELSE night_pr
  IN When(Truthy(theme_or_title),
          << <<>>, <<Plain("*"), PyStr(theme_or_title), Plain("*")>> >>)
     \o When(Truthy(scripture), Marked("[U+1F4D6] ", PyStr(scripture)))
     \o When(Truthy(reflection), Marked("[U+270D] ", PyStr(reflection)))
     \o When(Truthy(Get(e, "declaration")),
             Marked("[U+1F4AC] ", PyStr(Get(e, "declaration"))))
     \o When(Truthy(Get(e, "blessing")), Marked("[U+1F54A] ", PyStr(Get(e, "blessing"))))
     \o Marked("[U+1F64F] ", IF Truthy(pr) THEN PyStr(pr) ELSE DefaultPrayer(md))
     \o Promo(promo_url)

\* the branch `else:`
BareLines(md, e, promo_url) ==
  When(Truthy(Get(e, "verse")), Marked("[U+1F4D6] ", PyStr(Get(e, "verse"))))
  \o When(Truthy(Get(e, "note")), Marked("[U+270D] ", PyStr(Get(e, "note"))))
  \o Marked("[U+1F64F] ", DefaultPrayer(md))
  \o Promo(promo_url)

\* build_message_from_entry as it would be if an entry of neither style
\* gave no text
build_message_from_entry_blank(md, e, dt, promo_url) ==
  IF e.t # "dict" THEN TextRaised("path2")
  ELSE IF is_new(e)
  THEN Text("path2", JoinStrip(HeadLines(md, e, dt) \o NewLines(md, e, promo_url)))
  ELSE IF is_legacy(e)
  THEN Text("path2", JoinStrip(HeadLines(md, e, dt) \o LegacyLines(md, e, promo_url)))
  ELSE Text("path2", <<>>)

\* build_message_from_entry as it would be if the legacy style were looked
\* for first
build_message_from_entry_legacy_first(md, e, dt, promo_url) ==
  IF e.t # "dict" THEN TextRaised("path2")
  ELSE Text("path2",
            JoinStrip(HeadLines(md, e, dt)
                      \o (IF is_legacy(e) THEN LegacyLines(md, e, promo_url)
                          ELSE IF is_new(e) THEN NewLines(md, e, promo_url)
                          ELSE BareLines(md, e, promo_url))))

\* build_message_from_entry(mode, entry, dt), SITE_URL being promo_url:
\* entry.get raises on a value that is no dict
build_message_from_entry(md, e, dt, promo_url) ==
  IF e.t # "dict" THEN TextRaised("path2")
  ELSE Text("path2",
            JoinStrip(HeadLines(md, e, dt)
                      \o (IF is_new(e) THEN NewLines(md, e, promo_url)
                          ELSE IF is_legacy(e) THEN LegacyLines(md, e, promo_url)
                          ELSE BareLines(md, e, promo_url))))

-----------------------------------------------------------------------------
(* The renderers applied to records                                        *)

\* the keys the two renderers read
ShareKeys == {"title", "verse_ref"} \cup StrippedKeys

MessageKeys ==
  {"title", "Theme", "theme", "verse_ref", "verseRef", "VerseRef", "verse_text",
   "verseText", "VerseText", "point1", "point2", "point3", "closing", "prayer",
   "scripture", "Scripture", "verse", "reflection", "note", "thought",
   "declaration", "blessing", "morning_prayer", "morningPrayer", "night_prayer",
   "nightPrayer", "sunrise", "Sunrise", "sun_rise", "sunset", "Sunset", "sun_set"}

FieldKinds == {"text", "empty", "null", "other", "padded", "blank"}

\* a field value of each kind: a text named after its key, the empty
\* string, null, a number, a text with blanks around it, a text of blanks
FieldOf(k, kind) ==
  CASE kind = "padded" -> JStr(" padded ")
    [] kind = "blank" -> JStr(" ")
    [] OTHER -> ValueOf(k, kind)

\* a record of the legacy style
LegacyEntry ==
  [scripture |-> JStr("Psalm 23:1"), reflection |-> JStr("He leads me."),
   declaration |-> JStr("I shall not want."), blessing |-> JStr("Peace."),
   morning_prayer |-> JStr("Lead me today."), night_prayer |-> JStr("Keep me tonight.")]

\* the keys of each `a or b or c` chain of build_message_from_entry
MessageChains ==
  {{"title", "Theme", "theme"}, {"verse_ref", "verseRef", "VerseRef"},
   {"verse_text", "verseText", "VerseText"}, {"scripture", "Scripture", "verse"},
   {"reflection", "note", "thought"}, {"morning_prayer", "morningPrayer"},
   {"night_prayer", "nightPrayer"}, {"sunrise", "Sunrise", "sun_rise"},
   {"sunset", "Sunset", "sun_set"}, {"point1", "point2", "point3"}}

\* records of the legacy style that hold one key of the new style as well
MixedEntries ==
  {JDict(LegacyEntry @@ (k :> JStr(k))) :
     k \in {"title", "theme", "verse_ref", "verse_text", "point2", "closing", "prayer"}}

\* records of one field of any kind, records holding keys of one chain, the
\* records load_devotion_for returns, today_view's defaults, and raw entries
\* of either style and of both
RenderRecords ==
  {JNull, JDict(NoMembers), MorningDefault, NightDefault, JDict(B0), JDict(LegacyEntry)}
  \cup MixedEntries
  \cup {JDict(k :> FieldOf(k, kind)) : k \in ShareKeys \cup MessageKeys, kind \in FieldKinds}
  \cup UNION {{JDict([k \in K |-> ValueOf(k, kf[k])]) : kf \in [K -> {"text", "empty"}]} :
              K \in UNION {SUBSET c : c \in MessageChains}}
  \cup {RecordOf(th, JDict(b)) :
        th \in {JStr("New Beginnings"), JStr("")}, b \in {B0, B1, NoMembers}}

\* WHATSAPP_GROUP_LINK (JOIN_URL by default) and SITE_URL, set or set empty
Links ==
  {Plain("https://chat.whatsapp.com/CdkN2V0h8vCDg2AP4saYfG"),
   Plain("https://soulstart.onrender.com/"), EmptyText}

\* the parts of the state the renderers have no hand in
beside_render == <<resolver_vars, seen, script_vars, send_vars, nonce_vars, auth_vars, append_vars, migrate_vars>>

BesideRenderIdle ==
  file = AbsentFile /\ Idle /\ seen = NoMembers /\ ScriptIdle /\ SendIdle /\ NonceIdle /\ AuthIdle /\ AppendIdle /\ MigrateIdle

InitRender ==
  /\ record \in RenderRecords
  /\ link \in Links
  /\ for_mode = ""
  /\ msg = NoMsg
  /\ BesideRenderIdle

\* the share text of today_view built from `morning`
ShareText(today) ==
  /\ msg' = whatsapp_share_text(record, today, link)
  /\ for_mode' = "morning"
  /\ UNCHANGED <<record, link, beside_render>>

\* build_message_from_entry(mode, entry, dt), entry being a dict
BuildMessage(md, dt) ==
  /\ record.t = "dict"
  /\ msg' = build_message_from_entry(md, record, dt, link)
  /\ for_mode' = md
  /\ UNCHANGED <<record, link, beside_render>>

NextRender ==
  \/ \E today \in {D0, D1} : ShareText(today)
  \/ \E md \in {"morning", "night"}, dt \in {D0, D1} : BuildMessage(md, dt)

SpecRender == InitRender /\ [][NextRender]_vars

-----------------------------------------------------------------------------
(* scripts/whatsapp_auto.py: main.  events lists, in order, what the run   *)
(* has done on the desktop: printed the message, opened the browser,       *)
(* clicked, pressed keys, filled the clipboard.                            *)

\* the command line: --mode, --dry-run, --open-only, --send, and whether
\* --chat names a chat
ArgSets ==
  [mode : {"morning", "night", "verses", "custom"}, dry_run : BOOLEAN,
   open_only : BOOLEAN, send : BOOLEAN, chat : BOOLEAN]

\* what the run meets: whether pyautogui and pyperclip can be imported, which
\* call of quick_search_chat raises (none, the hotkey, the typing, the Enter,
\* or every call, the fallback's too), and whether verses.json holds what
\* get_message_from_json can read
EnvSets ==
  [deps : BOOLEAN,
   quick_search : {"ok", "no_hotkey", "no_typing", "no_enter", "nothing"},
   verses : BOOLEAN]

\* the parts of the state the script has no hand in
beside_script == <<resolver_vars, seen, render_vars, send_vars, nonce_vars, auth_vars, append_vars, migrate_vars>>

BesideScriptIdle ==
  file = AbsentFile /\ Idle /\ seen = NoMembers /\ RenderIdle /\ SendIdle /\ NonceIdle /\ AuthIdle /\ AppendIdle /\ MigrateIdle

InitScript ==
  /\ args \in ArgSets
  /\ env \in EnvSets
  /\ pc = "start"
  /\ events = <<>>
  /\ BesideScriptIdle

\* quick_search_chat: what it does before the first call that raises, then
\* the fallback of its except clause
quick_search_chat(outcome) ==
  LET fallback == <<"hotkey:f", "type:chat", "press:down", "press:enter">>
  IN CASE outcome = "ok" -> <<"hotkey:k", "type:chat", "press:enter">>
       [] outcome = "no_hotkey" -> fallback
       [] outcome = "no_typing" -> <<"hotkey:k">> \o fallback
       [] outcome = "no_enter" -> <<"hotkey:k", "type:chat">> \o fallback
       [] OTHER -> <<>>

\* do_paste as it would be if Enter were pressed after every paste
do_paste_always_enter(auto_send) ==
  <<"copy", "hotkey:v", "press:enter">>

\* do_paste: the clipboard is filled, the paste hotkey pressed, and Enter
\* pressed if auto_send
do_paste(auto_send) ==
  <<"copy", "hotkey:v">> \o (IF auto_send THEN <<"press:enter">> ELSE <<>>)

\* msg = get_message_from_json(effective_mode, dt): in mode verses the
\* .get and the slices raise on a verses.json of another shape
GetMessage ==
  /\ pc = "start"
  /\ pc' = IF args.mode = "verses" /\ ~env.verses THEN "crashed" ELSE "message"
  /\ UNCHANGED <<args, env, events, beside_script>>

\* if args.dry_run: the preview is printed and the script exits
DryRun ==
  /\ pc = "message"
  /\ args.dry_run
  /\ events' = Append(events, "print")
  /\ pc' = "exit0"
  /\ UNCHANGED <<args, env, beside_script>>

\* open_web()
OpenWeb ==
  /\ pc = "message"
  /\ ~args.dry_run
  /\ events' = Append(events, "open")
  /\ pc' = "opened"
  /\ UNCHANGED <<args, env, beside_script>>

\* if args.open_only: sys.exit(0)
OpenOnly ==
  /\ pc = "opened"
  /\ args.open_only
  /\ pc' = "exit0"
  /\ UNCHANGED <<args, env, events, beside_script>>

\* if args.chat: ensure_autogui (sys.exit(2) without the packages), a click
\* into the page, quick_search_chat
AimChat ==
  /\ pc = "opened"
  /\ ~args.open_only
  /\ args.chat
  /\ IF ~env.deps
     THEN pc' = "exit2" /\ UNCHANGED events
     ELSE /\ events' = events \o <<"click">> \o quick_search_chat(env.quick_search)
          /\ pc' = IF env.quick_search = "nothing" THEN "crashed" ELSE "aimed"
  /\ UNCHANGED <<args, env, beside_script>>

\* do_paste(msg, args.paste_delay, args.send), then sys.exit(0)
DoPaste ==
  /\ \/ pc = "aimed"
     \/ pc = "opened" /\ ~args.open_only /\ ~args.chat
  /\ IF ~env.deps
     THEN pc' = "exit2" /\ UNCHANGED events
     ELSE events' = events \o do_paste(args.send) /\ pc' = "exit0"
  /\ UNCHANGED <<args, env, beside_script>>

NextScript ==
  \/ GetMessage
  \/ DryRun
  \/ OpenWeb
  \/ OpenOnly
  \/ AimChat
  \/ DoPaste

SpecScript == InitScript /\ [][NextScript]_vars

-----------------------------------------------------------------------------
(* POST /admin/whatsapp/send                                               *)

\* at most MaxSends requests are logged
MaxSends == 1

\* a request: how it fares with the extensions in front of the view (the
\* CSRF check, the rate limit, the HTTPS redirect), whether its session is
\* authed, the form's mode, and whether the form holds send
Requests ==
  [gate : {"ok", "csrf", "limit", "https"}, authed : BOOLEAN,
   mode : {"", "both", "verses", "weekly"},
   flag : {"", "send"}]

\* how a run of the script ends: exit code 0, another exit code, or
\* subprocess.run raising (the timeout among the causes)
Outcomes == {"zero", "nonzero", "exception"}

\* what a response is kept with: the request it answers, less the mode
Answered(rq) == [gate |-> rq.gate, authed |-> rq.authed, flag |-> rq.flag]

\* a response of the extensions or of require_auth, without a JSON body
Plain_response(rq, status, to) ==
  [rq |-> Answered(rq), status |-> status, json |-> FALSE, ok |-> FALSE, to |-> to,
   results |-> <<>>]

\* jsonify(...)
Json_response(rq, status, ok, results) ==
  [rq |-> Answered(rq), status |-> status, json |-> TRUE, ok |-> ok, to |-> "",
   results |-> results]

\* mode = request.form.get("mode") or "both", and the modes to run for it
modes_to_run(form_mode) ==
  LET m == IF form_mode = "" THEN "both" ELSE form_mode
  IN IF m = "both" THEN <<"morning", "night">>
     ELSE IF m \in {"morning", "night", "verses"} THEN <<m>>
     ELSE <<"morning">>

\* the handler outside production as it would be if a run that fails kept
\* the following runs from starting
LocalSend_stops_at_failure(rq, outs) ==
  LET ms == modes_to_run(rq.mode)
      failing == {i \in 1..Len(ms) : outs[i] # "zero"}
      n == IF failing = {} THEN Len(ms) ELSE CHOOSE i \in failing : \A j \in failing : i <= j
      started == [i \in 1..n |-> [mode |-> ms[i], flag |-> rq.flag, end |-> outs[i]]]
      results == [i \in 1..n |-> [mode |-> ms[i], ok |-> outs[i] = "zero"]]
  IN [logged |-> <<[mode |-> IF rq.mode = "" THEN "both" ELSE rq.mode, flag |-> rq.flag]>>,
      started |-> started,
      resp |-> Json_response(rq, 200, \A i \in 1..n : results[i].ok, results)]

\* what the handler does with a request that reached it outside production:
\* the line it logs, the runs it starts, its response
LocalSend(rq, outs) ==
  LET ms == modes_to_run(rq.mode)
      started == [i \in 1..Len(ms) |-> [mode |-> ms[i], flag |-> rq.flag, end |-> outs[i]]]
      results == [i \in 1..Len(ms) |-> [mode |-> ms[i], ok |-> outs[i] = "zero"]]
  IN [logged |-> <<[mode |-> IF rq.mode = "" THEN "both" ELSE rq.mode, flag |-> rq.flag]>>,
      started |-> started,
      resp |-> Json_response(rq, 200, \A i \in 1..Len(ms) : results[i].ok, results)]

\* what is done without logging or starting anything
Only(response) == [logged |-> <<>>, started |-> <<>>, resp |-> response]

\* the extensions and require_auth in front of the view
Refusal(rq) ==
  CASE rq.gate = "csrf" -> Plain_response(rq, 400, "")
    [] rq.gate = "limit" -> Plain_response(rq, 429, "")
    [] rq.gate = "https" -> Plain_response(rq, 302, "https")
    [] OTHER -> Plain_response(rq, 302, "login")

\* the handler as it would be without its guard on IS_PROD
admin_whatsapp_send_unguarded(rq, outs, is_prod) ==
  IF rq.gate # "ok" \/ ~rq.authed THEN Only(Refusal(rq))
  ELSE LocalSend(rq, outs)

\* admin_whatsapp_send behind require_auth and the extensions
admin_whatsapp_send(rq, outs, is_prod) ==
  IF rq.gate # "ok" \/ ~rq.authed THEN Only(Refusal(rq))
  ELSE IF is_prod THEN Only(Json_response(rq, 400, FALSE, <<>>))
  ELSE LocalSend(rq, outs)

\* the parts of the state the handler has no hand in
beside_send == <<resolver_vars, seen, render_vars, script_vars, nonce_vars, auth_vars, append_vars, migrate_vars>>

BesideSendIdle ==
  file = AbsentFile /\ Idle /\ seen = NoMembers /\ RenderIdle /\ ScriptIdle /\ NonceIdle /\ AuthIdle /\ AppendIdle /\ MigrateIdle

InitSend ==
  /\ IS_PROD \in BOOLEAN
  /\ send_log = <<>>
  /\ runs = <<>>
  /\ resp = NoResp
  /\ BesideSendIdle

\* one request to /admin/whatsapp/send
AdminWhatsappSend(rq, outs) ==
  LET done == admin_whatsapp_send(rq, outs, IS_PROD)
  IN /\ Len(send_log) + Len(done.logged) <= MaxSends
     /\ send_log' = send_log \o done.logged
     /\ runs' = runs \o done.started
     /\ resp' = done.resp
     /\ UNCHANGED <<IS_PROD, beside_send>>

\* how the runs a request starts may end, one outcome for each run
OutcomesOf(rq) ==
  IF rq.gate = "ok" /\ rq.authed
  THEN [1..Len(modes_to_run(rq.mode)) -> Outcomes]
  ELSE {<<>>}

NextSend ==
  \E rq \in Requests : \E outs \in OutcomesOf(rq) : AdminWhatsappSend(rq, outs)

SpecSend == InitSend /\ [][NextSend]_vars

-----------------------------------------------------------------------------
(* tools/add_nonce.py.  A template's text is the sequence of the pieces    *)
(* the three regular expressions tell apart: the opening of a script or    *)
(* style tag, a src= attribute, a nonce attribute with a quoted value, a   *)
(* nonce attribute with a bare value, and the character ">".               *)

\* the longest template text the user writes at once
MaxLen == 4

Tokens == {"<script", "<style", "src", "nonce_q", "nonce_bare", ">"}

\* the attribute the tool writes: nonce="{{ csp_nonce() }}"
CspNonce == "csp_nonce"

Suffixes == {".html", ".HTML", ".txt"}

\* path.suffix.lower()
Lower(suffix) == IF suffix = ".HTML" THEN ".html" ELSE suffix

Templates ==
  [suffix : Suffixes, text : UNION {[1..n -> Tokens] : n \in 0..MaxLen}]

\* NONCE_ATTR_RE.search(start): nonce, "=" and a quote
NONCE_ATTR_RE(start) ==
  \E k \in 1..Len(start) : start[k] \in {"nonce_q", CspNonce}

\* add_nonce_to_tag as it would be without its look for a nonce
add_nonce_to_tag_unchecked(start, end) ==
  start \o <<CspNonce>> \o end

\* add_nonce_to_tag(match), start and end being the match's two groups
add_nonce_to_tag(start, end) ==
  IF NONCE_ATTR_RE(start) THEN start \o end
  ELSE start \o <<CspNonce>> \o end

\* the place of the first ">" after place i, 0 if there is none
FirstGt(t, i) ==
  IF \E j \in (i + 1)..Len(t) : t[j] = ">"
  THEN CHOOSE j \in (i + 1)..Len(t) :
         t[j] = ">" /\ \A k \in (i + 1)..(j - 1) : t[k] # ">"
  ELSE 0

\* RE.sub(add_nonce_to_tag, t) from place i on, for the expression
\* (<tag\b[^>]*)(>), with the lookahead (?![^>]*\bsrc=) if no_src: matches
\* are taken from left to right and do not overlap
RECURSIVE Sub(_, _, _, _)
Sub(tag, no_src, t, i) ==
  IF i > Len(t) THEN <<>>
  ELSE LET j == FirstGt(t, i)
       IN IF /\ t[i] = tag
             /\ j # 0
             /\ ~(no_src /\ \E k \in (i + 1)..(j - 1) : t[k] = "src")
          THEN add_nonce_to_tag(SubSeq(t, i, j - 1), <<t[j]>>) \o Sub(tag, no_src, t, j + 1)
          ELSE <<t[i]>> \o Sub(tag, no_src, t, i + 1)

SCRIPT_TAG_RE(t) == Sub("<script", TRUE, t, 1)

STYLE_TAG_RE(t) == Sub("<style", FALSE, t, 1)

\* process_file(path): the file and its .bak after the call, and the status
\* returned
process_file(path, bak_file) ==
  LET orig == path.text
      out == STYLE_TAG_RE(SCRIPT_TAG_RE(orig))
  IN IF Lower(path.suffix) # ".html"
     THEN [file |-> path, bak |-> bak_file, status |-> "skip_ext"]
     ELSE IF out # orig
     THEN [file |-> [path EXCEPT !.text = out],
           bak |-> IF bak_file.exists THEN bak_file
                   ELSE [exists |-> TRUE, text |-> orig],
           status |-> "updated"]
     ELSE [file |-> path, bak |-> bak_file, status |-> "nochange"]

\* the parts of the state the tool has no hand in
beside_nonce == <<resolver_vars, seen, render_vars, script_vars, send_vars, auth_vars, append_vars, migrate_vars>>

BesideNonceIdle ==
  file = AbsentFile /\ Idle /\ seen = NoMembers /\ RenderIdle /\ ScriptIdle /\ SendIdle /\ AuthIdle /\ AppendIdle /\ MigrateIdle

\* a template the tool has not met, with no .bak beside it
InitNonce ==
  /\ template \in Templates
  /\ bak = NoFile
  /\ pristine = NoFile
  /\ last_status = ""
  /\ BesideNonceIdle

\* main: process_file(p) for the template
ProcessFile ==
  LET done == process_file(template, bak)
  IN /\ template' = done.file
     /\ bak' = done.bak
     /\ last_status' = done.status
     /\ pristine' = IF done.status = "updated" /\ ~pristine.exists
                    THEN [exists |-> TRUE, text |-> template.text]
                    ELSE pristine
     /\ UNCHANGED beside_nonce

\* between two runs of the tool the author adds an inline tag at the end of
\* the template
EditTemplate(tag) ==
  /\ Len(template.text) <= MaxLen
  /\ template' = [template EXCEPT !.text = @ \o <<tag, ">">>]
  /\ last_status' = ""
  /\ UNCHANGED <<bak, pristine, beside_nonce>>

NextNonce ==
  \/ ProcessFile
  \/ \E tag \in {"<script", "<style"} : EditTemplate(tag)

SpecNonce == InitNonce /\ [][NextNonce]_vars

-----------------------------------------------------------------------------
(* The login and the routes under /admin                                   *)

\* str.strip() and str.lower() on the words typed into the login form and
\* set in the environment
Trimmed(w) ==
  CASE w = " secret " -> "secret"
    [] w = " Admin@X " -> "Admin@X"
    [] w = " " -> ""
    [] OTHER -> w

Lowered(w) ==
  CASE w = "Admin@X" -> "admin@x"
    [] w = " Admin@X " -> " admin@x "
    [] w = "Secret" -> "secret"
    [] OTHER -> w

\* ADMIN_EMAIL and ADMIN_PASSWORD as read from the environment
ADMIN_EMAIL == Lowered(Trimmed(environ.ADMIN_EMAIL))
ADMIN_PASSWORD == Trimmed(environ.ADMIN_PASSWORD)

\* is_authed()
is_authed == "authed" \in DOMAIN session /\ session["authed"]

\* verify_admin_credentials as it would be if the email alone decided
verify_admin_credentials_email_only(email, password) ==
  IF ADMIN_PASSWORD = "" THEN FALSE
  ELSE Lowered(Trimmed(email)) = ADMIN_EMAIL

\* verify_admin_credentials(email, password)
verify_admin_credentials(email, password) ==
  IF ADMIN_PASSWORD = "" THEN FALSE
  ELSE Lowered(Trimmed(email)) = ADMIN_EMAIL /\ Trimmed(password) = ADMIN_PASSWORD

\* the routes under /admin, and those of them declared with @require_auth
AdminRoutes ==
  {"/admin", "/admin/donations", "/admin/verses", "/admin/requests",
   "/admin/feedback", "/admin/volunteers", "/admin/whatsapp/send"}

RequireAuth == {"/admin", "/admin/donations", "/admin/verses", "/admin/whatsapp/send"}

\* the words a visitor may type, and the values the environment may hold
Emails == {"admin@x", " Admin@X ", "other@x", ""}
Passwords == {"secret", " secret ", "Secret", ""}
Environs == [ADMIN_EMAIL : {"admin@x", " Admin@X "}, ADMIN_PASSWORD : {"secret", " secret ", "", " "}]

\* a response: the request, whether the session was authed when it came,
\* the status, where a redirect leads, whether the view's body ran
Reply(rq, status, to, served) ==
  [rq |-> rq, was_authed |-> is_authed, status |-> status, to |-> to, served |-> served]

\* the parts of the state the login has no hand in
beside_auth == <<resolver_vars, seen, render_vars, script_vars, send_vars, nonce_vars, append_vars, migrate_vars>>

BesideAuthIdle ==
  file = AbsentFile /\ Idle /\ seen = NoMembers /\ RenderIdle /\ ScriptIdle /\ SendIdle /\ NonceIdle /\ AppendIdle /\ MigrateIdle

InitAuth ==
  /\ session = NoMembers
  /\ environ \in Environs
  /\ reply = NoReply
  /\ BesideAuthIdle

\* GET or POST /login
Login(method, email, password) ==
  LET rq == [route |-> "/login", method |-> method, email |-> email, password |-> password]
      form_email == Lowered(Trimmed(email))
      form_password == Trimmed(password)
  IN /\ IF is_authed
        THEN reply' = Reply(rq, 302, "admin", FALSE) /\ UNCHANGED session
        ELSE IF method = "POST" /\ ADMIN_PASSWORD # ""
                /\ verify_admin_credentials(form_email, form_password)
        THEN /\ session' = ("authed" :> TRUE) @@ session
             /\ reply' = Reply(rq, 302, "admin", TRUE)
        ELSE reply' = Reply(rq, 200, "", TRUE) /\ UNCHANGED session
     /\ UNCHANGED <<environ, beside_auth>>

\* GET /logout: session.pop("authed", None)
Logout ==
  /\ session' = [k \in DOMAIN session \ {"authed"} |-> session[k]]
  /\ reply' = Reply([route |-> "/logout", method |-> "GET", email |-> "", password |-> ""],
                    302, "home", TRUE)
  /\ UNCHANGED <<environ, beside_auth>>

\* a request to a route under /admin: behind require_auth where the route is
\* declared with it
AdminRequest(route) ==
  LET rq == [route |-> route, method |-> "GET", email |-> "", password |-> ""]
  IN /\ reply' = IF route \in RequireAuth /\ ~is_authed
                 THEN Reply(rq, 302, "login", FALSE)
                 ELSE Reply(rq, 200, "", TRUE)
     /\ UNCHANGED <<session, environ, beside_auth>>

NextAuth ==
  \/ \E method \in {"GET", "POST"}, email \in Emails, password \in Passwords :
       Login(method, email, password)
  \/ Logout
  \/ \E route \in AdminRoutes : AdminRequest(route)

SpecAuth == InitAuth /\ [][NextAuth]_vars

-----------------------------------------------------------------------------
(* append_json_list called by request handlers that run at the same time.  *)
(* A step is one operation on the file: reading it whole, opening it for   *)
(* writing (which empties it), writing the list.                           *)

\* the number of handlers running at the same time
MaxHandlers == 2

\* handler i appends the record i; the items already in the file are
\* numbered from 101
InitialLists == {[j \in 1..n |-> 100 + j] : n \in 0..3}

\* load_json_list(path): [] when json.load raises on a file just emptied
load_json_list(on_disk) ==
  IF on_disk.kind = "list" THEN on_disk.items ELSE <<>>

\* the parts of the state append_json_list has no hand in
beside_append ==
  <<resolver_vars, seen, render_vars, script_vars, send_vars, nonce_vars, auth_vars, migrate_vars>>

BesideAppendIdle ==
  /\ file = AbsentFile /\ Idle /\ seen = NoMembers /\ RenderIdle /\ ScriptIdle
  /\ SendIdle /\ NonceIdle /\ AuthIdle /\ MigrateIdle

InitAppend ==
  /\ initial \in InitialLists
  /\ donations = ListOnDisk(initial)
  /\ handlers = [i \in 1..MaxHandlers |-> [pc |-> "start", items |-> <<>>]]
  /\ BesideAppendIdle

\* items = load_json_list(path); items.append(record)
LoadAndAppend(i) ==
  /\ handlers[i].pc = "start"
  /\ handlers' = [handlers EXCEPT ![i] =
                    [pc |-> "appended", items |-> Append(load_json_list(donations), i)]]
  /\ UNCHANGED <<donations, initial, beside_append>>

\* path.open("w"): the file is emptied
OpenForWriting(i) ==
  /\ handlers[i].pc = "appended"
  /\ donations' = [kind |-> "emptied", items |-> <<>>]
  /\ handlers' = [handlers EXCEPT ![i].pc = "opened"]
  /\ UNCHANGED <<initial, beside_append>>

\* json.dump(items, f) and the close of the file
Dump(i) ==
  /\ handlers[i].pc = "opened"
  /\ donations' = ListOnDisk(handlers[i].items)
  /\ handlers' = [handlers EXCEPT ![i].pc = "done"]
  /\ UNCHANGED <<initial, beside_append>>

NextAppend ==
  \E i \in 1..MaxHandlers :
    \/ LoadAndAppend(i)
    \/ OpenForWriting(i)
    \/ Dump(i)

SpecAppend == InitAppend /\ [][NextAppend]_vars

-----------------------------------------------------------------------------
(* scripts/whatsapp_auto.py: get_message_from_json for the modes morning   *)
(* and night.  file is the month file that file_for_mode names for the     *)
(* call, link is SITE_URL.                                                 *)

\* normalize_datestr of whatsapp_auto.py: the same ten formats, tried in the
\* same order, as normalize_date_str of app.py
normalize_datestr(s) == normalize_date_str(s)

\* read_json(path): None when the file cannot be opened or parsed, and when
\* it holds null
read_json(f) == IF f.kind = "json" THEN f.top ELSE Top("null", NoMembers, <<>>)

\* the keys of a top-level object that parse_today_entry takes for the
\* target date: by the key itself or, when no format reads the key and the
\* value is a dict, by the value's date
KeysFor(m, target_iso) ==
  {k \in DOMAIN m :
     LET norm == normalize_datestr(k)
     IN IF norm = NoneText /\ IsDict(m[k])
        THEN normalize_datestr(PyStr(Or(GetOr(m[k], "date", JStr("")), JStr("")))) = target_iso
        ELSE norm = target_iso}

\* the first item of a top-level list dated target_iso under date, day, Day,
\* DATE or Date
RECURSIVE FirstItemFor(_, _)
FirstItemFor(l, target_iso) ==
  IF Len(l) = 0 THEN JNull
  ELSE LET item == Head(l)
       IN IF /\ IsDict(item)
             /\ \E k \in {"date", "day", "Day", "DATE", "Date"} :
                  k \in DOMAIN item.d /\ normalize_datestr(PyStr(item.d[k])) = target_iso
          THEN item
          ELSE FirstItemFor(Tail(l), target_iso)

\* parse_today_entry(data, target_iso); the sources hold at most one key for
\* a date, so that the order of the keys in the file decides nothing
parse_today_entry(data, target_iso) ==
  IF data.t = "dict"
  THEN LET found == KeysFor(data.m, target_iso)
       IN IF found = {} THEN JNull
          ELSE LET val == data.m[CHOOSE k \in found : TRUE]
               IN IF IsDict(val) THEN val ELSE JDict([value |-> val])
  ELSE IF data.t = "list" THEN FirstItemFor(data.l, target_iso)
  ELSE JNull

\* fallback_message(mode, dt), SITE_URL being site_url
fallback_message(md, dt, site_url) ==
  Text("fallback",
       (IF md = "morning"
        THEN << <<Plain("[U+1F305] Good morning! "), LongDate(dt)>>, <<>>,
                <<Plain("[U+201C]This is the day the Lord has made; we will rejoice and be glad in it.[U+201D] (Ps 118:24)")>>,
                <<>>, <<Plain("Lord, order my steps today. Amen.")>> >>
        ELSE << <<Plain("[U+1F319] Good night! "), LongDate(dt)>>, <<>>,
                <<Plain("[U+201C]In peace I will lie down and sleep[U+2026][U+201D] (Ps 4:8)")>>,
                <<>>, <<Plain("Lord, quiet my mind and keep me in Your care. Amen.")>> >>)
       \o Promo(site_url))

\* get_message_from_json as it would be without its `if entry:` test
get_message_from_json_unfiltered(md, f, dt, site_url) ==
  LET data == read_json(f)
      entry == parse_today_entry(data, IsoFormat(dt))
  IN IF data.t = "null" THEN fallback_message(md, dt, site_url)
     ELSE IF entry # JNull
     THEN build_message_from_entry(md, entry, dt, site_url)
     ELSE fallback_message(md, dt, site_url)

\* get_message_from_json(mode, dt) for mode morning or night
get_message_from_json(md, f, dt, site_url) ==
  LET data == read_json(f)
      entry == parse_today_entry(data, IsoFormat(dt))
      built == build_message_from_entry(md, entry, dt, site_url)
  IN IF data.t = "null" THEN fallback_message(md, dt, site_url)
     ELSE IF Truthy(entry) /\ built.k = "ok" /\ ~TextEmpty(built.lines) THEN built
     ELSE IF Truthy(entry) /\ built.k # "ok" THEN built
     ELSE fallback_message(md, dt, site_url)

\* what a month file may hold under a date
EntryVals ==
  {JDict(B0), JDict(LegacyEntry), JDict(NoMembers), JNull, JStr("x"), JStr(""),
   JList(<<>>), JNum("7")}

\* D0 written in each of the ten formats, D1, and a text no format reads
MonthDateTexts ==
  {Strftime(D0, Fmts[i]) : i \in 1..Len(Fmts)} \cup {IsoFormat(D1), Plain("soon")}

MonthSources ==
  {AbsentFile, GarbageFile, ScalarFile("null"), ScalarFile("str"), ScalarFile("num"),
   KeyedFile(NoMembers), ListFile(<<>>)}
  \cup {KeyedFile(t :> v) : t \in MonthDateTexts, v \in EntryVals}
  \cup {KeyedFile(Plain("day1") :> JDict(("date" :> JText(t)) @@ B0)) : t \in MonthDateTexts}
  \cup {ListFile(<<JStr("x"), JDict((kn :> JText(t)) @@ B0)>>) :
        kn \in DateKeyNames \cup {"when"}, t \in MonthDateTexts}
  \cup {ListFile(<<JDict(("date" :> JText(Key0)) @@ B0),
                   JDict(("date" :> JText(Key0)) @@ LegacyEntry)>>),
        ListFile(<<JDict([date |-> JText(Key0)])>>),
        ListFile(<<JDict([date |-> JNull, day |-> JText(Key0), title |-> JStr("title")])>>)}

\* the rest of the state while the script builds its message
BesideMessageIdle ==
  /\ store = Loaded(NoMembers) /\ res = JNull /\ morning = JNull /\ night = JNull
  /\ seen = NoMembers /\ ScriptIdle /\ SendIdle /\ NonceIdle /\ AuthIdle /\ AppendIdle /\ MigrateIdle

beside_message ==
  <<store, res, morning, night, seen, script_vars, send_vars, nonce_vars, auth_vars,
    append_vars, migrate_vars>>

InitMessage ==
  /\ file \in MonthSources
  /\ link \in Links
  /\ op = "init"
  /\ req = NoReq
  /\ record = JNull
  /\ for_mode = ""
  /\ msg = NoMsg
  /\ BesideMessageIdle

\* msg = get_message_from_json(mode, dt): record is the entry found
GetMessageFromJson(md, dt) ==
  /\ op' = "get_message"
  /\ req' = [date |-> dt, slot |-> md]
  /\ for_mode' = md
  /\ record' = parse_today_entry(read_json(file), IsoFormat(dt))
  /\ msg' = get_message_from_json(md, file, dt, link)
  /\ UNCHANGED <<file, link, beside_message>>

NextMessage ==
  \E md \in {"morning", "night"}, dt \in {D0, D1} : GetMessageFromJson(md, dt)

SpecMessage == InitMessage /\ [][NextMessage]_vars

-----------------------------------------------------------------------------
(* scripts/migrate_2025_to_year_json.py                                    *)

\* at most MaxFiles Sunrise files and MaxFiles Sunset files are found
MaxFiles == 2

\* the year the migration keeps
MigratedYear == 2025

\* a top-level object whose members are kept in the order of the file
Member(k, v) == [k |-> k, v |-> v]
OrderedFile(items) == [kind |-> "json", top |-> Top("dict", NoMembers, items)]

\* entry.get(k1) or entry.get(k2) or ... or last
RECURSIVE OrGet(_, _, _)
OrGet(entry, keys, last) ==
  IF Len(keys) = 0 THEN last
  ELSE IF Truthy(Get(entry, Head(keys))) THEN Get(entry, Head(keys))
  ELSE OrGet(entry, Tail(keys), last)

\* the date iter_entries reads inside an entry: normalize_date_str(str(dd))
\* if dd else None, dd being date, DATE, Date, day or Day, the first truthy
InnerDate(v) ==
  LET dd == OrGet(v, <<"date", "DATE", "Date", "day">>, Get(v, "Day"))
  IN IF Truthy(dd) THEN normalize_date_str(PyStr(dd)) ELSE NoneText

\* iter_entries on the members of an object, in order
RECURSIVE EntriesOfMembers(_)
EntriesOfMembers(items) ==
  IF Len(items) = 0 THEN <<>>
  ELSE LET v == Head(items).v
           byKey == normalize_date_str(Head(items).k)
           norm == IF ~IsDict(v) THEN NoneText
                   ELSE IF byKey # NoneText THEN byKey
                   ELSE InnerDate(v)
       IN (IF norm # NoneText THEN <<[iso |-> norm, entry |-> v]>> ELSE <<>>)
          \o EntriesOfMembers(Tail(items))

\* iter_entries on the items of a list, in order
RECURSIVE EntriesOfItems(_)
EntriesOfItems(l) ==
  IF Len(l) = 0 THEN <<>>
  ELSE LET v == Head(l)
           norm == IF IsDict(v) THEN InnerDate(v) ELSE NoneText
       IN (IF norm # NoneText THEN <<[iso |-> norm, entry |-> v]>> ELSE <<>>)
          \o EntriesOfItems(Tail(l))

\* iter_entries(load_json(path)): load_json gives None for a file that cannot
\* be read or parsed, and a scalar has no entries
iter_entries(f) ==
  IF f.kind # "json" THEN <<>>
  ELSE IF f.top.t = "dict" THEN EntriesOfMembers(f.top.l)
  ELSE IF f.top.t = "list" THEN EntriesOfItems(f.top.l)
  ELSE <<>>

\* the year test taken for a test of the layout alone
StartsWith2025_any_year(iso) == iso.shape = "n-n-n"

\* iso.startswith("2025-")
StartsWith2025(iso) == iso.shape = "n-n-n" /\ iso.p[1] = MigratedYear

\* the loop over one file's entries: map[iso] = entry for the dates of 2025,
\* a later entry replacing an earlier one of the same date
RECURSIVE Keep2025(_, _)
Keep2025(map, entries) ==
  IF Len(entries) = 0 THEN map
  ELSE Keep2025(IF StartsWith2025(Head(entries).iso)
                THEN (Head(entries).iso :> Head(entries).entry) @@ map
                ELSE map,
                Tail(entries))

\* a < b for two strings in the layout %Y-%m-%d
IsoLess(a, b) ==
  \/ a.p[1] < b.p[1]
  \/ a.p[1] = b.p[1] /\ a.p[2] < b.p[2]
  \/ a.p[1] = b.p[1] /\ a.p[2] = b.p[2] /\ a.p[3] < b.p[3]

\* sorted(S) for a set of such strings
RECURSIVE SortedDates(_)
SortedDates(S) ==
  IF S = {} THEN <<>>
  ELSE LET least == CHOOSE x \in S : \A y \in S : x = y \/ IsoLess(x, y)
       IN <<least>> \o SortedDates(S \ {least})

\* map_slot(entry)
map_slot(entry) ==
  JDict([title |-> OrGet(entry, <<"title", "Theme", "theme">>, JStr("")),
         verse_ref |-> OrGet(entry, <<"verse_ref", "scripture">>, JStr("")),
         verse_text |-> OrGet(entry, <<"verse_text", "verseText">>, JStr("")),
         encouragement_intro |-> OrGet(entry, <<"encouragement_intro", "intro">>, JStr("")),
         point1 |-> OrGet(entry, <<"point1">>, JStr("")),
         point2 |-> OrGet(entry, <<"point2">>, JStr("")),
         point3 |-> OrGet(entry, <<"point3">>, JStr("")),
         closing |-> OrGet(entry, <<"closing", "reflection", "note", "thought">>, JStr("")),
         prayer |-> OrGet(entry, <<"prayer", "morning_prayer", "night_prayer">>, JStr(""))])

\* map.get(iso)
MapGet(map, iso) == IF iso \in DOMAIN map THEN map[iso] ELSE JNull

\* the record main() builds for a date with at least one truthy entry
RecordFor(iso, s_entry, n_entry) ==
  LET own == IF Truthy(s_entry)
             THEN OrGet(s_entry, <<"theme", "Theme", "title">>, JStr(""))
             ELSE JStr("")
      theme == IF ~Truthy(own) /\ Truthy(n_entry)
               THEN OrGet(n_entry, <<"theme", "Theme", "title">>, JStr(""))
               ELSE own
  IN JDict([date |-> JText(iso),
            theme |-> theme,
            morning |-> IF Truthy(s_entry) THEN map_slot(s_entry) ELSE JNull,
            night |-> IF Truthy(n_entry) THEN map_slot(n_entry) ELSE JNull])

\* the loop over all_dates: a date whose two entries are both falsy is skipped
RECURSIVE BuildRecords(_, _, _)
BuildRecords(all_dates, smap, nmap) ==
  IF Len(all_dates) = 0 THEN <<>>
  ELSE LET iso == Head(all_dates)
           s_entry == MapGet(smap, iso)
           n_entry == MapGet(nmap, iso)
       IN (IF ~Truthy(s_entry) /\ ~Truthy(n_entry) THEN <<>>
           ELSE <<RecordFor(iso, s_entry, n_entry)>>)
          \o BuildRecords(Tail(all_dates), smap, nmap)

\* records.sort(key=lambda r: r["date"]): a stable sort
RECURSIVE SortByDate(_)
SortByDate(recs) ==
  IF Len(recs) = 0 THEN <<>>
  ELSE LET i == CHOOSE j \in 1..Len(recs) :
                  /\ \A h \in 1..Len(recs) : ~IsoLess(recs[h].d.date.s, recs[j].d.date.s)
                  /\ \A h \in 1..(j - 1) : IsoLess(recs[j].d.date.s, recs[h].d.date.s)
       IN <<recs[i]>> \o SortByDate(SubSeq(recs, 1, i - 1) \o SubSeq(recs, i + 1, Len(recs)))

\* three days of 2025 and the same day of the year before
M1 == [y |-> MigratedYear, m |-> 8, d |-> 1]
M2 == [y |-> MigratedYear, m |-> 8, d |-> 2]
M3 == [y |-> MigratedYear, m |-> 12, d |-> 31]
MOld == [y |-> MigratedYear - 1, m |-> 8, d |-> 1]

\* the legacy month files
LegacyFiles ==
  {GarbageFile,
   OrderedFile(<<>>),
   OrderedFile(<<Member(IsoFormat(M1), JDict(NoMembers))>>),
   OrderedFile(<<Member(IsoFormat(MOld), JDict(LegacyEntry))>>),
   OrderedFile(<<Member(IsoFormat(M2), JDict(LegacyEntry)),
                 Member(Strftime(M1, "%m/%d/%Y"), JDict(("Theme" :> JStr("Hope")) @@ B0)),
                 Member(Strftime(M2, "%d %B %Y"), JDict(B0)),
                 Member(IsoFormat(MOld), JDict(B0)),
                 Member(Plain("soon"), JDict(("Date" :> JText(IsoFormat(M3))) @@ B0)),
                 Member(IsoFormat(M3), JStr("x"))>>),
   ListFile(<<JStr("x"),
              JDict(("date" :> JText(IsoFormat(M3))) @@ LegacyEntry),
              JDict([day |-> JText(Strftime(M1, "%d-%m-%Y")), title |-> JStr("title")]),
              JDict([date |-> JNull, DATE |-> JText(IsoFormat(D0))])>>)}

\* the sequences of at most n legacy files
FilesUpTo(n) == UNION {[1..h -> LegacyFiles] : h \in 0..n}

\* the rest of the state while the migration runs
BesideMigrateIdle ==
  /\ file = AbsentFile /\ Idle /\ seen = NoMembers /\ RenderIdle /\ ScriptIdle
  /\ SendIdle /\ NonceIdle /\ AuthIdle /\ AppendIdle

beside_migrate ==
  <<resolver_vars, seen, render_vars, script_vars, send_vars, nonce_vars, auth_vars,
    append_vars>>

InitMigrate ==
  /\ sunrise_files \in FilesUpTo(MaxFiles)
  /\ sunset_files \in FilesUpTo(MaxFiles)
  /\ sunrise_map = NoMembers
  /\ sunset_map = NoMembers
  /\ stage = "find"
  /\ out_file = NotWritten
  /\ BesideMigrateIdle

\* main(): the two rglob calls, and SystemExit(1) when they find nothing
FindFiles ==
  /\ stage = "find"
  /\ stage' = IF sunrise_files = <<>> /\ sunset_files = <<>> THEN "abort" ELSE "load"
  /\ UNCHANGED <<sunrise_files, sunset_files, sunrise_map, sunset_map, out_file,
                 beside_migrate>>

\* one turn of the loop over sunrise_files
LoadSunrise ==
  /\ stage = "load"
  /\ sunrise_files # <<>>
  /\ sunrise_map' = Keep2025(sunrise_map, iter_entries(Head(sunrise_files)))
  /\ sunrise_files' = Tail(sunrise_files)
  /\ UNCHANGED <<sunset_files, sunset_map, stage, out_file, beside_migrate>>

\* one turn of the loop over sunset_files
LoadSunset ==
  /\ stage = "load"
  /\ sunrise_files = <<>>
  /\ sunset_files # <<>>
  /\ sunset_map' = Keep2025(sunset_map, iter_entries(Head(sunset_files)))
  /\ sunset_files' = Tail(sunset_files)
  /\ UNCHANGED <<sunrise_files, sunrise_map, stage, out_file, beside_migrate>>

\* the rest of main(): SystemExit(1) when no date of 2025 was found, and
\* otherwise the records, sorted, dumped to devotions_2025.json
WriteRecords ==
  /\ stage = "load"
  /\ sunrise_files = <<>>
  /\ sunset_files = <<>>
  /\ LET all_dates == SortedDates(DOMAIN sunrise_map \cup DOMAIN sunset_map)
     IN IF Len(all_dates) = 0
        THEN stage' = "abort" /\ out_file' = out_file
        ELSE /\ stage' = "done"
             /\ out_file' = Written(SortByDate(BuildRecords(all_dates, sunrise_map, sunset_map)))
  /\ UNCHANGED <<sunrise_files, sunset_files, sunrise_map, sunset_map, beside_migrate>>

NextMigrate == FindFiles \/ LoadSunrise \/ LoadSunset \/ WriteRecords

SpecMigrate == InitMigrate /\ [][NextMigrate]_vars

-----------------------------------------------------------------------------
(* What the claims speak of                                                *)

\* the last call was load_devotion_for, and the slot it ran with
Called == op \in {"resolve", "resolve_default"}
CalledSlot == IF op = "resolve_default" THEN "morning" ELSE req.slot

\* the loaded year store of the requested date, and its value at the date key
ReqStore == load_devotions_for_year(file, req.date.y).m
ReqDay == DayBlockOf(Loaded(ReqStore), req.date)

\* the store is empty, or lacks the date key, or holds no mapping there
DayMissing ==
  \/ DOMAIN ReqStore = {}
  \/ IsoFormat(req.date) \notin DOMAIN ReqStore
  \/ ReqStore[IsoFormat(req.date)].t # "dict"

\* a slotted (Dialect A) day-block: a dict at key morning or at key night
DialectA(day) ==
  /\ day.t = "dict"
  /\ \E k \in {"morning", "night"} : k \in DOMAIN day.d /\ day.d[k].t = "dict"

RecordKeys ==
  {"title", "theme", "verse_ref", "body", "verse_text", "heart_picture",
   "silent_soul_meaning", "prayer", "tags"}

\* the fields of a record that carry the slot's content
ContentFields == RecordKeys \ {"theme"}

\* a record none of whose content fields holds anything
ContentEmpty(r) == r.t = "dict" /\ \A fld \in ContentFields : ~Truthy(r.d[fld])

\* the keys each chained field is taken from
ChainKeys ==
  [title |-> {"title", "Theme", "theme"},
   verse_ref |-> {"verse_ref", "scripture"},
   body |-> {"silent_soul_meaning", "closing", "verse_text", "body"},
   prayer |-> {"prayer", "morning_prayer", "night_prayer"}]

-----------------------------------------------------------------------------
(* C1                                                                      *)

\* the slot value of a slotted day-block is something other than a mapping
SlotNotMapping ==
  /\ DialectA(ReqDay)
  /\ Truthy(Get(ReqDay, CalledSlot))
  /\ Get(ReqDay, CalledSlot).t # "dict"

\* C1 as stated: load_devotion_for returns a record, never None, and never
\* raises, whatever the date, the slot and the content of the year source
C1_AlwaysARecord == Called => (res # Raised /\ res # JNull /\ res.t = "dict")

\* C1 as amended: load_devotion_for never raises; it returns None exactly when
\* the year store holds no mapping at the date key or the slot value of a
\* slotted day-block is a non-empty non-mapping, and otherwise a record with
\* the nine documented keys
C1_NeverRaises_NoneOrRecord ==
  Called =>
    /\ res # Raised
    /\ (res = JNull) <=> (DayMissing \/ SlotNotMapping)
    /\ res # JNull => (res.t = "dict" /\ DOMAIN res.d = RecordKeys)

\* a slotted day-block whose requested slot holds a string: None is returned
C1_Witness ==
  /\ Called
  /\ SlotNotMapping
  /\ CalledSlot = "night"
  /\ res = JNull

-----------------------------------------------------------------------------
(* C2                                                                      *)

\* the year source is absent, is not JSON, or is JSON of a scalar type
NoUsableSource ==
  \/ req.date.y # FileYear
  \/ file.kind \in {"absent", "garbage"}
  \/ file.top.t \notin {"dict", "list"}

\* C2: load_devotions_for_year never raises, and returns the empty mapping
\* whenever the year source is absent, unparsable, or neither a mapping nor
\* a sequence
C2_LoadYearDegradesToEmpty ==
  op = "load" =>
    /\ store.k = "ok"
    /\ NoUsableSource => DOMAIN store.m = {}

\* the loader has run on a file that is not JSON and returned the empty mapping
C2_Witness ==
  /\ op = "load"
  /\ req.date.y = FileYear
  /\ file.kind = "garbage"
  /\ store = Loaded(NoMembers)

-----------------------------------------------------------------------------
(* C3                                                                      *)

\* the slot block the last call extracted from
ReqSlotBlock == SlotBlockOf(ReqDay, CalledSlot)

\* C3 as stated: in every returned record theme, verse_ref, verse_text,
\* verse_meaning, body and prayer are non-empty strings
C3_RequiredFieldsNonEmpty ==
  (Called /\ res.t = "dict") =>
    \A fld \in {"theme", "verse_ref", "verse_text", "verse_meaning", "body", "prayer"} :
      /\ fld \in DOMAIN res.d
      /\ res.d[fld].t = "str"
      /\ res.d[fld].s # EmptyText

\* C3 as amended: a returned record has no verse_meaning field and nothing in
\* it comes from a fallback pack: each of title, verse_ref, body and prayer
\* is a non-empty value of the slot block under one of the field's keys, or
\* the empty string when the slot block has none; verse_text, heart_picture
\* and silent_soul_meaning are the slot block's own values, or the empty
\* string when the key is absent
C3_FieldsFromSlotOrEmpty ==
  (Called /\ res.t = "dict") =>
    /\ "verse_meaning" \notin DOMAIN res.d
    /\ \A fld \in DOMAIN ChainKeys :
         IF \E k \in ChainKeys[fld] : Truthy(Get(ReqSlotBlock, k))
         THEN /\ Truthy(res.d[fld])
              /\ \E k \in ChainKeys[fld] : Get(ReqSlotBlock, k) = res.d[fld]
         ELSE res.d[fld] = JStr("")
    /\ \A fld \in {"verse_text", "heart_picture", "silent_soul_meaning"} :
         res.d[fld] = GetOr(ReqSlotBlock, fld, JStr(""))

\* a record was returned whose verse_ref and prayer stayed empty
C3_Witness ==
  /\ Called
  /\ res.t = "dict"
  /\ res.d["verse_ref"] = JStr("")
  /\ res.d["prayer"] = JStr("")
  /\ Truthy(res.d["body"])

-----------------------------------------------------------------------------
(* C4                                                                      *)

\* C4 as stated: for an empty store, a missing date key or a non-mapping
\* value, load_devotion_for returns the record with theme "Coming Soon" and
\* tags ["placeholder"]
C4_ComingSoonPlaceholder ==
  (Called /\ DayMissing) =>
    /\ res.t = "dict"
    /\ Get(res, "theme") = JStr("Coming Soon")
    /\ Get(res, "tags") = JList(<<JStr("placeholder")>>)

\* C4 as amended: for an empty store, a missing date key or a non-mapping
\* value, load_devotion_for returns None, and today_view shows in its place
\* the slot's fixed default (title "Morning Mercies" or "Quiet Rest", with a
\* verse_ref and a body, and neither theme nor tags)
C4_NoneThenTodayDefault ==
  /\ (Called /\ DayMissing) => res = JNull
  /\ (op = "today" /\ DayMissing) =>
       /\ Get(morning, "title") = JStr("Morning Mercies")
       /\ Get(night, "title") = JStr("Quiet Rest")
       /\ DOMAIN morning.d = {"title", "verse_ref", "body"}
       /\ DOMAIN night.d = {"title", "verse_ref", "body"}

\* /today was served from a store holding a non-mapping at today's key
C4_Witness ==
  /\ op = "today"
  /\ IsoFormat(req.date) \in DOMAIN ReqStore
  /\ DayMissing
  /\ morning = MorningDefault
  /\ night = NightDefault

-----------------------------------------------------------------------------
(* C5                                                                      *)

\* what load_devotion_for returns for a day that is missing from the store
MissingDayResult == load_devotion_for(KeyedFile(NoMembers), req.date, CalledSlot)

\* the requested slot of a slotted day-block is absent, empty or no mapping
SlotAbsentEmptyOrNotMapping ==
  /\ DialectA(ReqDay)
  /\ \/ CalledSlot \notin DOMAIN ReqDay.d
     \/ ReqDay.d[CalledSlot] = JDict(NoMembers)
     \/ ReqDay.d[CalledSlot].t # "dict"

\* C5: when a slotted day-block lacks a usable sub-object for the requested
\* slot, load_devotion_for returns what it returns for a missing day, not a
\* record whose content fields are all empty
C5_MissingSlotLikeMissingDay ==
  (Called /\ CalledSlot \in {"morning", "night"} /\ SlotAbsentEmptyOrNotMapping) =>
    /\ res = MissingDayResult
    /\ ~ContentEmpty(res)

-----------------------------------------------------------------------------
(* C6                                                                      *)

\* C6 as stated: a slot other than "morning" or "night" resolves to the
\* record of slot "morning" on the same date and store
C6_OtherSlotIsMorning ==
  (op = "resolve" /\ req.slot \notin {"morning", "night"}) =>
    res = load_devotion_for(file, req.date, "morning")

\* C6 as amended: the slot argument is not normalised; only an omitted slot
\* takes the default "morning".  For a day that is missing or flat (Dialect
\* B) every slot value gives the result of "morning"; for a slotted
\* day-block the slot value is used as the key as it is, and where the
\* day-block holds nothing under it the record has the day's theme and
\* empty content fields, whatever the morning slot holds
C6_SlotUsedVerbatim ==
  /\ op = "resolve_default" => res = load_devotion_for(file, req.date, "morning")
  /\ (op = "resolve" /\ ~DialectA(ReqDay)) =>
       res = load_devotion_for(file, req.date, "morning")
  /\ (op = "resolve" /\ DialectA(ReqDay) /\ req.slot \notin {"morning", "night"}
        /\ ~Truthy(Get(ReqDay, req.slot))) =>
       /\ ContentEmpty(res)
       /\ res.d["theme"] = GetOr(ReqDay, "theme", JStr(""))

\* slot "Morning" on a slotted day-block with a full morning slot gave a
\* record with empty content, unlike slot "morning"
C6_Witness ==
  /\ op = "resolve"
  /\ req.slot = "Morning"
  /\ DialectA(ReqDay)
  /\ ContentEmpty(res)
  /\ ~ContentEmpty(load_devotion_for(file, req.date, "morning"))

-----------------------------------------------------------------------------
(* C10                                                                     *)

\* the flat (Dialect B) day-block obtained from a slotted one: the members of
\* its morning slot, with the day's theme where the slot has none
FlattenMorning(day) ==
  JDict(Get(day, "morning").d @@ Opt("theme", GetOr(day, "theme", Absent)))

\* the year source with the requested day-block replaced by its flattening
FlattenedSource == KeyedFile(IsoFormat(req.date) :> FlattenMorning(ReqDay))

\* C10: a slotted day-block and the flat day-block obtained by flattening
\* its morning slot resolve, for slot "morning", to records with the same
\* verse_ref, verse_text, body and prayer
C10_DialectEquivalence ==
  (Called /\ CalledSlot = "morning" /\ DialectA(ReqDay)
     /\ Get(ReqDay, "morning").t = "dict" /\ ~DialectA(FlattenMorning(ReqDay))) =>
    LET flat == load_devotion_for(FlattenedSource, req.date, "morning")
    IN /\ res.t = "dict"
       /\ flat.t = "dict"
       /\ \A fld \in {"verse_ref", "verse_text", "body", "prayer"} :
            res.d[fld] = flat.d[fld]

\* slot "morning" of a slotted day-block resolved to a record with content
C10_Witness ==
  /\ Called
  /\ CalledSlot = "morning"
  /\ DialectA(ReqDay)
  /\ res.t = "dict"
  /\ Truthy(res.d["verse_ref"])
  /\ Truthy(res.d["body"])
  /\ Truthy(res.d["prayer"])

-----------------------------------------------------------------------------
(* C7, C8, C9: list-form sources                                           *)

ListForm == file.kind = "json" /\ file.top.t = "list"

\* a text of the form YYYY-MM-DD naming a date that exists
IsIsoDate(k) ==
  /\ k.shape = "n-n-n"
  /\ Len(k.p) = 3
  /\ MkDate(k.p[1], k.p[2], k.p[3]) # NoDate

\* none of the ten formats reads the text
Unreadable(t) == \A i \in 1..Len(Fmts) : Strptime(t, Fmts[i]) = NoDate

\* the values of a mapping
Values(m) == {m[k] : k \in DOMAIN m}

\* C7: after load_devotions_for_year reads a list-form source every key of
\* the returned mapping is a normalised ISO date, and an entry whose date
\* text matches none of the ten formats appears under no key
C7_ListKeysAreIsoDates ==
  (op = "load" /\ ListForm) =>
    /\ \A k \in DOMAIN store.m : IsIsoDate(k)
    /\ \A i \in 1..Len(file.top.l) :
         LET entry == file.top.l[i]
         IN (entry.t = "dict" /\ Get(entry, "date").t = "str"
               /\ Unreadable(Get(entry, "date").s)) =>
              entry \notin Values(store.m)

\* C8: in list form an entry without the field date whose date is given
\* under DATE, Date, day or Day is in the returned mapping under its ISO date
C8_DateKeyVariants ==
  (op = "load" /\ ListForm) =>
    \A i \in 1..Len(file.top.l) :
      LET entry == file.top.l[i]
      IN \A kn \in DateKeyNames \ {"date"} :
           (entry.t = "dict" /\ "date" \notin DOMAIN entry.d
              /\ Get(entry, kn).t = "str" /\ ~Unreadable(Get(entry, kn).s)) =>
             \E k \in DOMAIN store.m : IsIsoDate(k) /\ store.m[k] = entry

\* the source is a list of one entry whose field date is the requested date
\* written in one of the ten formats
OneEntryDatedAsRequested ==
  /\ ListForm
  /\ Len(file.top.l) = 1
  /\ file.top.l[1].t = "dict"
  /\ Get(file.top.l[1], "date").t = "str"
  /\ \E i \in 1..Len(Fmts) :
       Strftime(req.date, Fmts[i]) = Get(file.top.l[1], "date").s

\* the same entry in the keyed encoding, under the ISO key of the request
KeyedEncoding == KeyedFile(IsoFormat(req.date) :> file.top.l[1])

\* C9: for every date, slot and format, a list-form source whose entry is
\* dated in that format resolves to the same record as the keyed encoding
\* of the same entry under its ISO date
C9_ListKeyedRoundTrip ==
  (Called /\ OneEntryDatedAsRequested) =>
    res = load_devotion_for(KeyedEncoding, req.date, CalledSlot)

-----------------------------------------------------------------------------
(* C11                                                                     *)

\* the requested day-block is slotted, has a theme at day level, and its
\* morning slot holds exactly verse_ref, verse_text, closing and prayer, each
\* a non-empty string
ThemedDayWithFullMorning ==
  /\ DialectA(ReqDay)
  /\ "theme" \in DOMAIN ReqDay.d
  /\ Get(ReqDay, "morning").t = "dict"
  /\ DOMAIN Get(ReqDay, "morning").d = {"verse_ref", "verse_text", "closing", "prayer"}
  /\ \A k \in {"verse_ref", "verse_text", "closing", "prayer"} :
       Get(ReqDay, "morning").d[k].t = "str" /\ Truthy(Get(ReqDay, "morning").d[k])

\* C11: for a slotted day-block with a day-level theme and a morning slot
\* holding verse_ref, verse_text, closing and prayer and no tags,
\* load_devotion_for(date, "morning") returns a record whose theme is the
\* day-level theme, whose verse_ref and prayer are the slot's, whose body is
\* the closing text, and whose tags is the empty list
C11_SlottedMorningScenario ==
  (Called /\ CalledSlot = "morning" /\ ThemedDayWithFullMorning) =>
    /\ res.t = "dict"
    /\ res.d["theme"] = ReqDay.d["theme"]
    /\ res.d["verse_ref"] = Get(ReqDay, "morning").d["verse_ref"]
    /\ res.d["prayer"] = Get(ReqDay, "morning").d["prayer"]
    /\ res.d["body"] = Get(ReqDay, "morning").d["closing"]
    /\ res.d["tags"] = JList(<<>>)

\* the scenario itself: theme "New Beginnings", verse "Genesis 1:1", closing
\* "Start fresh.", prayer "Lord, guide me."
C11_Witness ==
  /\ Called
  /\ CalledSlot = "morning"
  /\ ThemedDayWithFullMorning
  /\ res.t = "dict"
  /\ res.d["theme"] = JStr("New Beginnings")
  /\ res.d["verse_ref"] = JStr("Genesis 1:1")
  /\ res.d["body"] = JStr("Start fresh.")
  /\ res.d["prayer"] = JStr("Lord, guide me.")
  /\ res.d["tags"] = JList(<<>>)

-----------------------------------------------------------------------------
(* C12                                                                     *)

-----------------------------------------------------------------------------
(* C19, C20                                                                *)

\* the aliases of each chained field, in the order they are walked
ChainOrder ==
  [title |-> <<"title", "Theme", "theme">>,
   verse_ref |-> <<"verse_ref", "scripture">>,
   body |-> <<"silent_soul_meaning", "closing", "verse_text", "body">>,
   prayer |-> <<"prayer", "morning_prayer", "night_prayer">>]

\* the first non-empty value of block under the keys, else the empty string
RECURSIVE FirstNonEmpty(_, _)
FirstNonEmpty(block, keys) ==
  IF Len(keys) = 0 THEN JStr("")
  ELSE IF Truthy(Get(block, Head(keys))) THEN Get(block, Head(keys))
  ELSE FirstNonEmpty(block, Tail(keys))

\* the first non-empty value walking the keys in order and, for each key,
\* looking in the slot block before the day-block
RECURSIVE FirstSlotThenDay(_, _, _)
FirstSlotThenDay(slot_block, day_block, keys) ==
  IF Len(keys) = 0 THEN JStr("")
  ELSE IF Truthy(Get(slot_block, Head(keys))) THEN Get(slot_block, Head(keys))
  ELSE IF Truthy(Get(day_block, Head(keys))) THEN Get(day_block, Head(keys))
  ELSE FirstSlotThenDay(slot_block, day_block, Tail(keys))

\* the content fields a record takes from a block
ContentFrom(block) ==
  [fld \in ContentFields |->
     IF fld \in DOMAIN ChainOrder THEN FirstNonEmpty(block, ChainOrder[fld])
     ELSE IF fld = "tags"
     THEN (IF Truthy(Get(block, "tags")) THEN Get(block, "tags") ELSE JList(<<>>))
     ELSE GetOr(block, fld, JStr(""))]

\* the content fields of a record
ContentOf(r) == [fld \in ContentFields |-> r.d[fld]]

\* the value of the requested day-block under the slot asked for
ReqSlotValue == Get(ReqDay, CalledSlot)

\* where the content of the requested day is to come from: in Dialect A the
\* value under the slot, or the empty mapping where there is none; in
\* Dialect B the day-block
SlotContent ==
  IF DialectA(ReqDay)
  THEN (IF Truthy(ReqSlotValue) THEN ReqSlotValue ELSE JDict(NoMembers))
  ELSE ReqDay

\* C19: a day-block is Dialect A exactly when its value at morning or at
\* night is a dict.  In Dialect A the theme is the day-block's theme and the
\* content comes only from the value under the slot (the empty mapping when
\* there is none; no record when it is something else than a mapping); in
\* Dialect B the content comes from the day-block itself, and morning and
\* night resolve alike
C19_DialectDetection ==
  (Called /\ ReqDay.t = "dict") =>
    IF DialectA(ReqDay)
    THEN IF SlotContent.t # "dict" THEN res = JNull
         ELSE /\ res.t = "dict"
              /\ res.d["theme"] = GetOr(ReqDay, "theme", JStr(""))
              /\ ContentOf(res) = ContentFrom(SlotContent)
    ELSE /\ res.t = "dict"
         /\ ContentOf(res) = ContentFrom(ReqDay)
         /\ res = load_devotion_for(file, req.date, "morning")
         /\ res = load_devotion_for(file, req.date, "night")

\* night was resolved from a day-block that is slotted through its night
\* slot alone
C19_Witness ==
  /\ Called
  /\ CalledSlot = "night"
  /\ DialectA(ReqDay)
  /\ Get(ReqDay, "morning").t # "dict"
  /\ res.t = "dict"
  /\ res.d["theme"] = JStr("New Beginnings")
  /\ res.d["verse_ref"] = JStr("Genesis 1:1")

\* C20 as stated: verse_ref, verse_meaning and prayer are each the first
\* non-empty value walking the aliases in order, slot block before day-block
\* for each alias
C20_SlotThenDayPerAlias ==
  (Called /\ res.t = "dict" /\ SlotContent.t = "dict") =>
    /\ res.d["verse_ref"] =
         FirstSlotThenDay(SlotContent, ReqDay, <<"verse_ref", "scripture">>)
    /\ res.d["prayer"] =
         FirstSlotThenDay(SlotContent, ReqDay,
                          <<"prayer", "morning_prayer", "night_prayer">>)
    /\ "verse_meaning" \in DOMAIN res.d
    /\ res.d["verse_meaning"] =
         FirstSlotThenDay(SlotContent, ReqDay,
                          <<"verse_meaning", "silent_soul_meaning", "heart_picture",
                            "encouragement_intro">>)

\* C20 as amended: title, verse_ref, body and prayer are each the first
\* non-empty value walking the field's aliases in order in the slot block
\* alone, or the empty string; the day-block is not looked at, and the
\* record has no verse_meaning field
C20_ChainsWalkSlotBlockOnly ==
  (Called /\ res.t = "dict" /\ SlotContent.t = "dict") =>
    /\ \A fld \in DOMAIN ChainOrder :
         res.d[fld] = FirstNonEmpty(SlotContent, ChainOrder[fld])
    /\ "verse_meaning" \notin DOMAIN res.d

\* a slotted day-block holds a prayer at day level and none in its morning
\* slot: the prayer of the record is empty
C20_Witness ==
  /\ Called
  /\ CalledSlot = "morning"
  /\ DialectA(ReqDay)
  /\ Truthy(Get(ReqDay, "prayer"))
  /\ \A k \in {"prayer", "morning_prayer", "night_prayer"} : ~Truthy(Get(SlotContent, k))
  /\ res.t = "dict"
  /\ res.d["prayer"] = JStr("")

-----------------------------------------------------------------------------
(* C13, C14, C15: the renderers                                            *)

\* a renderer has been called and has returned a text
Rendered == msg.k = "ok"

\* the text returned is the empty string
RenderedEmpty == msg.k = "ok" /\ TextEmpty(msg.lines)

\* C13 as stated: a renderer returns the empty string exactly when the record
\* given is null or empty
C13_EmptyExactlyOnNullOrEmpty ==
  msg.k = "ok" => (TextEmpty(msg.lines) <=> ~Truthy(record))

\* C13 as amended: the share text of today_view is the empty string for a
\* null or empty record and is never the empty string for another record;
\* build_message_from_entry returns a text that is not empty for every
\* mapping, the empty one included
C13_EmptyOnlyOnPath1 ==
  /\ msg.by = "path1" => (RenderedEmpty <=> ~Truthy(record))
  /\ msg.by = "path2" => (msg.k = "ok" /\ ~TextEmpty(msg.lines))

\* build_message_from_entry was given the empty mapping and returned the
\* header, the default prayer of the mode and the promotion of the site
C13_Witness ==
  /\ msg.by = "path2"
  /\ record = JDict(NoMembers)
  /\ for_mode = "night"
  /\ link # EmptyText
  /\ msg.k = "ok"
  /\ Len(msg.lines) = 6
  /\ msg.lines[3] = <<Plain("[U+1F64F] "), DefaultPrayer("night")>>
  /\ msg.lines[6] = <<link>>

\* C14: neither renderer raises, whatever fields of the record are absent,
\* empty, or hold something other than a string
C14_RenderNeverRaises ==
  (msg.k # "none" /\ record.t = "dict") => msg.k = "ok"

\* the Scripture line as the scenario words it: the reference, an em dash
\* between blanks, the verse text in quotes
ScriptureLineWanted(r) ==
  <<Plain("[U+1F4D6] Scripture: "), r.d["verse_ref"].s, Plain(" [U+2014] \""),
    r.d["verse_text"].s, Plain("\"")>>

\* the footer line: the share link
FooterLine == <<Plain("[U+1F517] Share Us:  "), link>>

\* line holds the pieces of part one after the other
HoldsPieces(line, part) ==
  \E i \in 0..(Len(line) - Len(part)) : SubSeq(line, i + 1, i + Len(part)) = part

\* the record is a canonical record with string fields, a verse_ref and a
\* verse_text that is not empty and has no blanks around it
CanonicalWithVerse(r) ==
  /\ r.t = "dict"
  /\ RecordKeys \subseteq DOMAIN r.d
  /\ \A k \in RecordKeys \ {"tags"} : r.d[k].t = "str"
  /\ Truthy(r.d["verse_ref"])
  /\ Truthy(r.d["verse_text"])
  /\ Strip(r.d["verse_text"].s) = r.d["verse_text"].s

\* C15: the share text of a canonical record with verse_ref R and verse_text
\* T holds the words [U+1F4D6] Scripture: R [U+2014] "T", and its last line
\* is the footer
C15_ScriptureLineAndFooter ==
  (msg.by = "path1" /\ CanonicalWithVerse(record)) =>
    /\ msg.k = "ok"
    /\ \E i \in 1..Len(msg.lines) : HoldsPieces(msg.lines[i], ScriptureLineWanted(record))
    /\ msg.lines[Len(msg.lines)] = FooterLine

-----------------------------------------------------------------------------
(* C16                                                                     *)

\* Enter was pressed after the message had been pasted
EnterAfterPaste ==
  \E i, j \in 1..Len(events) :
    i < j /\ events[i] = "hotkey:v" /\ events[j] = "press:enter"

\* C16: Enter is pressed after the paste only when --send was given; with
\* --dry-run the run does nothing but print the message; with --open-only
\* it opens the browser and does nothing else
C16_EnterOnlyWithSend ==
  /\ EnterAfterPaste => args.send
  /\ args.dry_run =>
       /\ \A i \in 1..Len(events) : events[i] = "print"
       /\ pc = "exit0" => events = <<"print">>
  /\ (args.open_only /\ ~args.dry_run) =>
       /\ \A i \in 1..Len(events) : events[i] = "open"
       /\ pc = "exit0" => events = <<"open">>

\* a run with --chat and without --send has ended: Enter was pressed to pick
\* the chat, the message was pasted, and nothing was pressed after the paste
C16_Witness ==
  /\ pc = "exit0"
  /\ args.chat
  /\ ~args.send
  /\ \E i \in 1..Len(events) : events[i] = "press:enter"
  /\ events[Len(events)] = "hotkey:v"

-----------------------------------------------------------------------------
(* C17                                                                     *)

\* C17 as stated: in production every request to /admin/whatsapp/send leaves
\* the send log as it is, starts no run of the script, and is answered with
\* ok = false and status 400
C17_ProdAlways400 ==
  IS_PROD =>
    /\ send_log = <<>>
    /\ runs = <<>>
    /\ resp # NoResp => (resp.status = 400 /\ resp.json /\ ~resp.ok)

\* C17 as amended: in production no request to /admin/whatsapp/send appends
\* to the send log or starts a run of the script; a request of an authed
\* session that reaches the handler is answered with JSON ok = false and
\* status 400, and a request of a session that is not authed is redirected to
\* the login page without a JSON body
C17_ProdNeverSends ==
  IS_PROD =>
    /\ send_log = <<>>
    /\ runs = <<>>
    /\ (resp # NoResp /\ resp.rq.gate = "ok") =>
         IF resp.rq.authed
         THEN resp.status = 400 /\ resp.json /\ ~resp.ok
         ELSE resp.status = 302 /\ resp.to = "login" /\ ~resp.json

\* in production a request of an authed session asking to send was answered
\* 400, and nothing was logged or started
C17_Witness ==
  /\ IS_PROD
  /\ resp.rq.gate = "ok"
  /\ resp.rq.authed
  /\ resp.rq.flag = "send"
  /\ resp.status = 400
  /\ resp.json
  /\ ~resp.ok
  /\ send_log = <<>>
  /\ runs = <<>>

-----------------------------------------------------------------------------
(* C18                                                                     *)

\* C18: a run of process_file that follows a run of process_file changes
\* neither the template nor its .bak and reports no update; and the .bak,
\* from the first run that changed the template on, holds the text the
\* template had before that run
C18_IdempotentBackupOnce ==
  /\ [](bak = pristine)
  /\ [][(last_status # "" /\ last_status' # "") =>
          (template' = template /\ bak' = bak /\ last_status' # "updated")]_vars

\* the tool changed the template and wrote the .bak, the author added a tag,
\* the tool changed the template again and left the .bak as it was, and a
\* further run found nothing to change
C18_Witness ==
  /\ last_status = "nochange"
  /\ bak.exists
  /\ Len(template.text) > Len(bak.text) + 3
  /\ \E k \in 1..Len(template.text) : template.text[k] = CspNonce

-----------------------------------------------------------------------------
(* C21                                                                     *)

\* the non-empty values under the keys, in order, each taken from the slot
\* block or else from the day-block
RECURSIVE NonEmptySlotThenDay(_, _, _)
NonEmptySlotThenDay(slot_block, day_block, keys) ==
  IF Len(keys) = 0 THEN <<>>
  ELSE LET v == FirstSlotThenDay(slot_block, day_block, <<Head(keys)>>)
       IN (IF Truthy(v) THEN <<v>> ELSE <<>>)
          \o NonEmptySlotThenDay(slot_block, day_block, Tail(keys))

\* v is the newline-join of the parts: every value of the sources is a text
\* of one line, so that only the join of one part is a value of a source
IsJoinOf(v, parts) == Len(parts) = 1 /\ v = parts[1]

\* C21 as stated: body is the newline-join of the non-empty values among
\* body, point1, point2, point3 and closing, each from the slot block or else
\* the day-block, and is verse_text when there are none
C21_BodyAssembled ==
  (Called /\ res.t = "dict" /\ SlotContent.t = "dict") =>
    LET parts == NonEmptySlotThenDay(SlotContent, ReqDay,
                                     <<"body", "point1", "point2", "point3", "closing">>)
    IN IF Len(parts) = 0
       THEN res.d["body"] = FirstSlotThenDay(SlotContent, ReqDay, <<"verse_text">>)
       ELSE IsJoinOf(res.d["body"], parts)

\* C21 as amended: body is chosen, not assembled: it is the slot block's
\* silent_soul_meaning when that is non-empty, else its closing, else its
\* verse_text (ahead of an explicit body), else its body, else the empty
\* string; it is always one value of the slot block, whatever points the
\* block holds
C21_BodyChosenFromSlot ==
  (Called /\ res.t = "dict" /\ SlotContent.t = "dict") =>
    LET has(k) == Truthy(Get(SlotContent, k))
        b == res.d["body"]
    IN /\ has("silent_soul_meaning") => b = Get(SlotContent, "silent_soul_meaning")
       /\ (~has("silent_soul_meaning") /\ has("closing")) => b = Get(SlotContent, "closing")
       /\ (~has("silent_soul_meaning") /\ ~has("closing") /\ has("verse_text")) =>
            b = Get(SlotContent, "verse_text")
       /\ (~has("silent_soul_meaning") /\ ~has("closing") /\ ~has("verse_text")) =>
            b = (IF has("body") THEN Get(SlotContent, "body") ELSE JStr(""))
       /\ \A k \in PointKeys : has(k) => b # Get(SlotContent, k)

\* a morning slot with a body, three points, a closing and a verse_text was
\* resolved: the body of the record is the closing alone
C21_Witness ==
  /\ Called
  /\ res.t = "dict"
  /\ SlotContent.t = "dict"
  /\ \A k \in PointKeys \cup {"body", "closing", "verse_text"} : Truthy(Get(SlotContent, k))
  /\ res.d["body"] = Get(SlotContent, "closing")
  /\ res.d["body"] # Get(SlotContent, "body")

-----------------------------------------------------------------------------
(* C22                                                                     *)

\* C22: the tags of a record are a list: the slot block's tags if that is a
\* list, else the day-block's tags if that is a list, else the empty list
C22_TagsAlwaysList ==
  (Called /\ res.t = "dict" /\ SlotContent.t = "dict") =>
    /\ IsList(res.d["tags"])
    /\ res.d["tags"] =
         (IF IsList(Get(SlotContent, "tags")) THEN Get(SlotContent, "tags")
          ELSE IF IsList(Get(ReqDay, "tags")) THEN Get(ReqDay, "tags")
          ELSE JList(<<>>))

-----------------------------------------------------------------------------
(* C23                                                                     *)

\* the text returned has a line that begins with the label
LabelLine(label) ==
  \E i \in 1..Len(msg.lines) :
    Len(msg.lines[i]) > 0 /\ msg.lines[i][1] = Plain(label)

\* C23: in the share text of today_view the Theme, Scripture and Prayer
\* lines are there if and only if the field they show is not empty; a line
\* whose field is empty is left out, never written as a bare label
C23_LineIffFieldNonEmpty ==
  (msg.by = "path1" /\ msg.k = "ok" /\ Truthy(record)) =>
    /\ LabelLine("Theme ") <=> Truthy(Get(record, "title"))
    /\ LabelLine("[U+1F4D6] Scripture: ") <=>
         (Truthy(Get(record, "verse_ref")) \/ Truthy(Get(record, "verse_text")))
    /\ LabelLine("[U+1F64F] Prayer:  ") <=> Truthy(Get(record, "prayer"))

-----------------------------------------------------------------------------
(* C24                                                                     *)

\* the record holds something under one of the keys
Present(keys) == \E k \in keys : Truthy(Get(record, k))

\* the text returned has a line that begins with the mark
HasMark(mark) ==
  \E i \in 1..Len(msg.lines) :
    Len(msg.lines[i]) > 0 /\ msg.lines[i][1] = Plain(mark)

TitleKeys == {"title", "Theme", "theme"}
VerseKeys == {"verse_ref", "verseRef", "VerseRef", "verse_text", "verseText", "VerseText"}
ScriptureKeys == {"scripture", "Scripture", "verse"}
ReflectionKeys == {"reflection", "note", "thought"}
MorningPrayerKeys == {"morning_prayer", "morningPrayer"}
NightPrayerKeys == {"night_prayer", "nightPrayer"}

NewStyle == Present(TitleKeys \cup VerseKeys \cup PointKeys \cup {"closing", "prayer"})

LegacyStyle ==
  Present(ScriptureKeys \cup ReflectionKeys \cup MorningPrayerKeys \cup NightPrayerKeys
          \cup {"declaration", "blessing"})

-----------------------------------------------------------------------------
(* C25, C26                                                                *)

\* C25: a request to a route under /admin from a session that is not authed
\* is redirected to the login page and the view's body does not run
C25_AdminNeedsAuth ==
  (reply.rq.route \in AdminRoutes /\ ~reply.was_authed) =>
    (reply.status = 302 /\ reply.to = "login" /\ ~reply.served)

\* the form holds the admin account: the email trimmed and lower-cased, the
\* password trimmed, and a password is configured
MatchesAccount(rq) ==
  /\ Trimmed(environ.ADMIN_PASSWORD) # ""
  /\ Lowered(Trimmed(rq.email)) = Lowered(Trimmed(environ.ADMIN_EMAIL))
  /\ Trimmed(rq.password) = Trimmed(environ.ADMIN_PASSWORD)

\* C26: the session becomes authed only through a POST /login that holds the
\* admin account; another login request leaves the session as it is; /logout
\* clears it; and while the session is not authed every route declared with
\* @require_auth redirects to the login page
C26_AuthedOnlyThroughLogin ==
  [][/\ (is_authed' /\ ~is_authed) =>
          (reply'.rq.route = "/login" /\ reply'.rq.method = "POST" /\ MatchesAccount(reply'.rq))
     /\ (reply'.rq.route = "/login" /\ ~(reply'.rq.method = "POST" /\ MatchesAccount(reply'.rq))) =>
          session' = session
     /\ reply'.rq.route = "/logout" => ~is_authed'
     /\ (reply'.rq.route \in RequireAuth /\ ~is_authed) =>
          (reply'.to = "login" /\ ~reply'.served /\ ~is_authed')]_vars

\* a POST /login whose email and password match the account once trimmed
\* and lower-cased has made the session authed
C26_Witness ==
  /\ is_authed
  /\ ~reply.was_authed
  /\ reply.rq.route = "/login"
  /\ reply.rq.method = "POST"
  /\ reply.rq.email = " Admin@X "
  /\ reply.rq.password = " secret "
  /\ reply.to = "admin"

-----------------------------------------------------------------------------
(* C27                                                                     *)

\* every handler has returned from append_json_list
AllAppended ==
  handlers # <<>> /\ \A i \in DOMAIN handlers : handlers[i].pc = "done"

\* C27: once every call of append_json_list has returned, the file holds the
\* initial items followed by every appended record
C27_NoRecordLost ==
  AllAppended =>
    /\ donations.kind = "list"
    /\ Len(donations.items) = Len(initial) + Len(handlers)
    /\ SubSeq(donations.items, 1, Len(initial)) = initial
    /\ \A i \in DOMAIN handlers :
         \E j \in (Len(initial) + 1)..Len(donations.items) : donations.items[j] = i

-----------------------------------------------------------------------------
(* C28                                                                     *)

\* C28: a request the handler takes up outside production starts one run for
\* morning and then one for night when the mode is both, one run for morning
\* when the mode is none of both, morning, night, verses; each run that ends
\* otherwise than with exit code 0 is reported with ok = false and the runs
\* after it are started all the same; the response's ok is true exactly when
\* every run ended with exit code 0
C28_RunsPerModeAndOverallOk ==
  [][Len(send_log') = Len(send_log) + 1 =>
       LET md == send_log'[Len(send_log')].mode
           new == SubSeq(runs', Len(runs) + 1, Len(runs'))
           want == IF md = "both" THEN <<"morning", "night">>
                   ELSE IF md \in {"morning", "night", "verses"} THEN <<md>>
                   ELSE <<"morning">>
       IN /\ ~IS_PROD
          /\ SubSeq(runs', 1, Len(runs)) = runs
          /\ Len(new) = Len(want)
          /\ \A i \in 1..Len(want) : new[i].mode = want[i]
          /\ resp'.results =
               [i \in 1..Len(want) |-> [mode |-> want[i], ok |-> new[i].end = "zero"]]
          /\ resp'.ok <=> \A i \in 1..Len(want) : new[i].end = "zero"]_vars

\* mode both: the run for morning ended with an exception, the run for night
\* was started after it and ended with exit code 0, and the response has
\* ok = false
C28_Witness ==
  /\ ~IS_PROD
  /\ Len(send_log) = 1
  /\ send_log[1].mode = "both"
  /\ Len(runs) = 2
  /\ runs[1] = [mode |-> "morning", flag |-> "send", end |-> "exception"]
  /\ runs[2] = [mode |-> "night", flag |-> "send", end |-> "zero"]
  /\ resp.json
  /\ ~resp.ok
  /\ resp.results = <<[mode |-> "morning", ok |-> FALSE], [mode |-> "night", ok |-> TRUE]>>

-----------------------------------------------------------------------------
(* C29                                                                     *)

\* the month file is readable JSON and holds, for the date asked for, an
\* entry that is not empty: a member of the top-level object whose key, or
\* whose own date, reads as the date, or an item of the top-level list dated
\* so; a member that is no mapping counts as the entry {"value": member}
EntryThere ==
  /\ file.kind = "json"
  /\ \/ /\ file.top.t = "dict"
        /\ \E k \in DOMAIN file.top.m :
             /\ file.top.m[k] # JDict(NoMembers)
             /\ \/ normalize_date_str(k) = IsoFormat(req.date)
                \/ /\ normalize_date_str(k) = NoneText
                   /\ IsDict(file.top.m[k])
                   /\ normalize_date_str(PyStr(Get(file.top.m[k], "date"))) = IsoFormat(req.date)
     \/ /\ file.top.t = "list"
        /\ \E i \in 1..Len(file.top.l) :
             /\ IsDict(file.top.l[i])
             /\ \E k \in DateKeyNames :
                  normalize_date_str(PyStr(Get(file.top.l[i], k))) = IsoFormat(req.date)

\* the first line of the fallback message of a mode
FallbackGreeting(md) ==
  IF md = "morning" THEN Plain("[U+1F305] Good morning! ")
  ELSE Plain("[U+1F319] Good night! ")

\* C29: get_message_from_json for morning or night returns a text that is
\* not empty: the message built from the entry when the month file is
\* readable and holds a non-empty entry for the date, and otherwise the
\* fallback message of the same mode
C29_BuiltOrFallbackNeverEmpty ==
  op = "get_message" =>
    /\ msg.k = "ok"
    /\ ~TextEmpty(msg.lines)
    /\ IF EntryThere
       THEN /\ msg.by = "path2"
            /\ msg.lines[1] = <<Header(req.slot), LongDate(req.date)>>
            /\ Truthy(record)
       ELSE /\ msg.by = "fallback"
            /\ msg.lines[1] = <<FallbackGreeting(req.slot), LongDate(req.date)>>
            /\ msg.lines[5] = <<DefaultPrayer(req.slot)>>

\* the month file holds the empty mapping under the date: the fallback of
\* night was returned, with the site's address at its end
C29_Witness ==
  /\ op = "get_message"
  /\ req.slot = "night"
  /\ file.kind = "json"
  /\ file.top.t = "dict"
  /\ record = JDict(NoMembers)
  /\ link # EmptyText
  /\ msg.by = "fallback"
  /\ msg.lines[1] = <<Plain("[U+1F319] Good night! "), LongDate(req.date)>>
  /\ msg.lines[Len(msg.lines)] = <<link>>

-----------------------------------------------------------------------------
(* C30                                                                     *)

\* C30: every record written by the migration has a date beginning with
\* "2025-", the dates of the written list are strictly increasing, and in
\* every record morning or night is a slot block, not null
C30_WrittenRecordsWellFormed ==
  out_file.k = "written" =>
    /\ \A i \in 1..Len(out_file.records) :
         LET r == out_file.records[i].d
         IN /\ r.date.t = "str"
            /\ r.date.s.shape = "n-n-n"
            /\ r.date.s.p[1] = 2025
            /\ IsDict(r.morning) \/ IsDict(r.night)
            /\ r.morning = JNull \/ IsDict(r.morning)
            /\ r.night = JNull \/ IsDict(r.night)
    /\ \A i, j \in 1..Len(out_file.records) :
         i < j =>
           LET a == out_file.records[i].d.date.s.p
               b == out_file.records[j].d.date.s.p
           IN \/ a[1] < b[1]
              \/ a[1] = b[1] /\ a[2] < b[2]
              \/ a[1] = b[1] /\ a[2] = b[2] /\ a[3] < b[3]

\* three days were written, one with no morning and one with no night
C30_Witness ==
  /\ stage = "done"
  /\ out_file.k = "written"
  /\ Len(out_file.records) = 3
  /\ \E i \in 1..3 : out_file.records[i].d.morning = JNull
  /\ \E i \in 1..3 : out_file.records[i].d.night = JNull

====
